---- MODULE Spec2Model ----
(***************************************************************************)
(* The composition pipeline of the orchestrator                            *)
(* (src/orchestrator/composition.py, src/orchestrator/main.py).            *)
(*                                                                         *)
(* One run of the compiled graph is modelled: the nodes                    *)
(* analyze_requirements, decompose_tasks, retrieve_task_services (one      *)
(* instance per task, sent by initiate_service_retrieval) and              *)
(* build_composition, followed by the return of compose_with_langgraph.    *)
(* A second specification, WebSpec, models the handlers of main.py with    *)
(* their two stores and the runs of several requests side by side.         *)
(* The reasoning capability (llm) and the repository service are the       *)
(* environment: every call may return or raise, and what it returns is     *)
(* drawn from the small sets named below.                                  *)
(*                                                                         *)
(* Channels of CompositionState follow their declaration: a key declared   *)
(* with Annotated[list, operator.add] is merged by concatenation, every    *)
(* other key keeps the last value written.  The instances of               *)
(* retrieve_task_services run in one superstep; the graph moves on when    *)
(* all of them have returned.  Their writes are merged here in the order   *)
(* the instances return, which covers every order a scheduler can pick.    *)
(***************************************************************************)
EXTENDS Bags, FiniteSets, Integers, Sequences, TLC

VARIABLES
    pc,                     \* the node of the graph that runs next
    requirements,           \* CompositionState.requirements
    constraints,            \* CompositionState.constraints
    analyzed_requirements,  \* CompositionState.analyzed_requirements
    requirement_cot,        \* CompositionState.requirement_cot
    structured_tasks,       \* CompositionState.structured_tasks
    task_breakdown,         \* CompositionState.task_breakdown
    retrieved_services,     \* CompositionState.retrieved_services
    task_service_candidates,\* CompositionState.task_service_candidates
    final_composition,      \* CompositionState.final_composition
    reasoning_steps,        \* CompositionState.reasoning_steps
    branches,               \* the Send() instances of retrieve_task_services
    response,               \* how compose_with_langgraph ended
    llm_calls,              \* log of the calls made to the reasoning capability
    discovery_calls,        \* log of the queries posted to the repository
    trace                   \* the nodes that ran, in order

\* the web layer
VARIABLES
    compositions,           \* the store compositions of main.py
    confirmed_compositions, \* the store confirmed_compositions of main.py
    running,                \* the compose and recompose requests being served
    uuids,                  \* how many identifiers uuid.uuid4() has handed out
    last_response           \* the response sent last

\* the monitoring service
VARIABLES
    mon_pc,                 \* where run_chronological_monitoring stands
    all_data,               \* the processed runs, in processing order
    composition_id,         \* the argument composition_id of the monitoring run
    offered,                \* how many runs were handed to insert_navigation_metrics
    stored_count,           \* stored_count of run_chronological_monitoring
    degradation_analysis,   \* what the detector returned
    posts,                  \* the bodies posted to /api/v1/recompose
    in_flight,              \* the posted request the orchestrator has not received
    answers,                \* what requests.post returned or raised, per post
    orchestrator_response,  \* what send_orchestrator_recomposition returned
    monitoring_result       \* what run_chronological_monitoring returned

\* the variables of the single graph run
graphVars == <<pc, requirements, constraints, analyzed_requirements, requirement_cot,
               structured_tasks, task_breakdown, retrieved_services,
               task_service_candidates, final_composition, reasoning_steps,
               branches, response, llm_calls, discovery_calls, trace>>

webVars == <<compositions, confirmed_compositions, running, uuids, last_response>>

monVars == <<mon_pc, all_data, composition_id, offered, stored_count,
             degradation_analysis, posts, in_flight, answers,
             orchestrator_response, monitoring_result>>

vars == <<graphVars, webVars, monVars>>

stateVars == <<requirements, constraints, analyzed_requirements, requirement_cot,
               structured_tasks, task_breakdown, retrieved_services,
               task_service_candidates, final_composition, reasoning_steps>>

----------------------------------------------------------------------------
(* Bounds of the model *)

\* the longest task list the extraction call returns
MaxTasks == 2
\* the most results one repository answer holds
MaxResults == 2
\* the most alternatives one blueprint answer holds
MaxAlternatives == 1

----------------------------------------------------------------------------
(* Optional values: Python's None and a present value *)

None == <<>>
Some(x) == <<x>>
Get(o) == o[1]
IsNone(o) == o = None

\* Python truthiness of "list | None": None and [] are falsy
TruthyList(o) == ~IsNone(o) /\ Len(Get(o)) > 0

\* Python truthiness of "object | None": only None is falsy
TruthyObject(o) == ~IsNone(o)

Last(s) == s[Len(s)]

IsPrefix(s, t) == Len(s) <= Len(t) /\ SubSeq(t, 1, Len(s)) = s

RECURSIVE SumSeq(_)
SumSeq(s) == IF s = <<>> THEN 0 ELSE s[1] + SumSeq(Tail(s))

RECURSIVE BagOfSeq(_)
BagOfSeq(s) == IF s = <<>> THEN EmptyBag ELSE SetToBag({s[1]}) (+) BagOfSeq(Tail(s))

SeqsUpTo(S, n) == UNION {[1..k -> S] : k \in 0..n}

----------------------------------------------------------------------------
(* Channels of CompositionState *)

\* mutant: the merge field declared without its reducer (the last write wins)
OperatorAddOverwrites(old, new) == new

\* mutant: the merge keeps the first non-empty write
OperatorAddFirstWins(old, new) == IF old = <<>> THEN new ELSE old

\* retrieved_services: Annotated[list[str], operator.add]
OperatorAdd(old, new) == old \o new

\* a key without a reducer keeps the last value written to it
LastValue(old, new) == new

----------------------------------------------------------------------------
(* The reasoning capability: llm.ainvoke and llm.with_structured_output *)

\* the text the capability writes for the prompt of that name in prompts.yaml
GeneratedText(prompt) ==
    CASE prompt = "requirement_cot" -> "requirement reasoning"
      [] prompt = "task_decomposition_cot" -> "task breakdown"
      [] prompt = "composition_builder_cot" -> "composition analysis"

\* a free-text call returns text or raises
LlmTextResponses(prompt) ==
    {[raised |-> TRUE, content |-> ""],
     [raised |-> FALSE, content |-> GeneratedText(prompt)]}

\* confidence scores the structured analysis call may carry
RawConfidences == {0, 1, 10, 11}

\* what the structured analysis call produces before schema validation
RawAnalyses ==
    [domain : {"text-analysis"}, goals : {<<"goal">>}, input_types : {<<"audio">>},
     success_criteria : {<<"accurate">>}, constraints : {<<>>},
     confidence_score : RawConfidences]

AnalysisResponses ==
    {[raised |-> TRUE, value |-> None]}
        \cup {[raised |-> FALSE, value |-> Some(a)] : a \in RawAnalyses}

\* mutant: the upper limit le=10 is missing from the field
ValidRequirementAnalysisNoUpperLimit(a) == a.confidence_score >= 1

\* RequirementAnalysisResult: confidence_score has ge=1, le=10
ValidRequirementAnalysis(a) == a.confidence_score >= 1 /\ a.confidence_score <= 10

\* the tasks the extraction call may list; extra holds the names of fields
\* the answer carries beyond name, description and ml_keywords
RawTasks ==
    [name : {"Transcribe"}, description : {"transcribe audio"},
     ml_keywords : {<<"asr">>}, extra : {{}, {"task_id"}}]
        \cup
    [name : {"Classify"}, description : {"classify sentiment"},
     ml_keywords : {<<"sentiment">>}, extra : {{}, {"task_id"}}]

TaskExtractionResponses ==
    {[raised |-> TRUE, tasks |-> <<>>]}
        \cup {[raised |-> FALSE, tasks |-> s] : s \in SeqsUpTo(RawTasks, MaxTasks)}

\* TaskDescriptionForLLM and TaskExtractionResult: extra="forbid"
ValidTaskExtraction(tasks) == \A i \in 1..Len(tasks) : tasks[i].extra = {}

\* blueprints the builder's extraction call may return
BlueprintChain ==
    [tasks |-> <<[id |-> 1, service_name |-> "asr", dep |-> <<-1>>],
                 [id |-> 2, service_name |-> "sentiment", dep |-> <<1>>]>>]

BlueprintForward ==
    [tasks |-> <<[id |-> 1, service_name |-> "asr", dep |-> <<2>>],
                 [id |-> 2, service_name |-> "sentiment", dep |-> <<-1>>]>>]

Blueprints == {BlueprintChain, BlueprintForward}

RawBlueprintSets ==
    [alternatives : SeqsUpTo(Blueprints, MaxAlternatives), extra : {{}}]
        \cup {[alternatives |-> <<BlueprintChain>>, extra |-> {"notes"}]}

BlueprintResponses ==
    {[raised |-> TRUE, value |-> None]}
        \cup {[raised |-> FALSE, value |-> Some(b)] : b \in RawBlueprintSets}

\* CompositionBlueprintAgentResponse: extra="forbid"
ValidBlueprintSet(b) == b.extra = {}

----------------------------------------------------------------------------
(* The repository service: POST /api/v1/vector-store/search *)

\* the ranked candidates of the index; each answer holds a prefix of them
Ranking ==
    <<[content |-> "speech to text", metadata |-> [source |-> "services/asr.md"]],
      [content |-> "no source", metadata |-> [source |-> ""]],
      [content |-> "sentiment model", metadata |-> [source |-> "services/sentiment.md"]],
      [content |-> "speech to text", metadata |-> [source |-> "services/asr.md"]]>>

ResultLists == {SubSeq(Ranking, 1, n) : n \in 0..MaxResults}

\* the request raises, answers with an error status, answers 200 without a
\* "results" key, or answers 200 with a list of results
DiscoveryResponses ==
    {[raised |-> TRUE, status_code |-> 0, has_results |-> FALSE, results |-> <<>>],
     [raised |-> FALSE, status_code |-> 500, has_results |-> FALSE, results |-> <<>>],
     [raised |-> FALSE, status_code |-> 200, has_results |-> FALSE, results |-> <<>>]}
        \cup
    {[raised |-> FALSE, status_code |-> 200, has_results |-> TRUE, results |-> r] :
        r \in ResultLists}

----------------------------------------------------------------------------
(* Audit notes written to reasoning_steps *)

NoteAnalysisOk == "CoT Analysis - Domain: {domain}, Goals: {n}, Confidence: {c}/10"
NoteAnalysisFailed ==
    "CoT Analysis completed - structured parsing failed, using text reasoning"
NoteNoRequirements == "Task decomposition failed - no structured requirements"
NoteTasksOk == "Task Decomposition - {n} structured tasks extracted"
NoteTasksFailed ==
    "Task Decomposition completed - structured extraction failed, using text analysis only"
NoteBuildMissing == "Composition building failed - missing tasks or services"
NoteBuildOk == "Composition building completed - blueprint generated with full analysis"
NoteBuildFailed ==
    "Composition building completed - structured generation failed, using analysis only"

\* the node that writes a note
NoteNode(note) ==
    CASE note \in {NoteAnalysisOk, NoteAnalysisFailed} -> "analyze_requirements"
      [] note \in {NoteNoRequirements, NoteTasksOk, NoteTasksFailed} -> "decompose_tasks"
      [] note \in {NoteBuildMissing, NoteBuildOk, NoteBuildFailed} -> "build_composition"

\* an entry of the call log: the node, the call it made, the answer it got
Call(node, kind, resp) == [node |-> node, call |-> kind, response |-> resp]

----------------------------------------------------------------------------
(* Inputs *)

Requirements == {"", "transcribe audio then classify sentiment"}
Constraints == {"{}"}

\* graph.ainvoke(initial_state)
Init ==
    /\ pc = "analyze_requirements"
    /\ requirements \in Requirements
    /\ constraints \in Constraints
    /\ analyzed_requirements = None
    /\ requirement_cot = None
    /\ structured_tasks = None
    /\ task_breakdown = None
    /\ retrieved_services = OperatorAdd(<<>>, <<>>)
    /\ task_service_candidates = None
    /\ final_composition = None
    /\ reasoning_steps = <<>>
    /\ branches = <<>>
    /\ response = "pending"
    /\ llm_calls = <<>>
    /\ discovery_calls = <<>>
    /\ trace = <<>>

----------------------------------------------------------------------------
(* An exception leaves the node and the graph: graph.ainvoke raises *)

Raises(node, kind, resp) ==
    /\ pc' = "raised"
    /\ llm_calls' = Append(llm_calls, Call(node, kind, resp))
    /\ trace' = Append(trace, node)
    /\ UNCHANGED <<stateVars, branches, response, discovery_calls>>

----------------------------------------------------------------------------
(* Stage 1: analyze_requirements *)

\* the structured analysis: the validated answer, or None when the call
\* raised or the answer does not fit RequirementAnalysisResult
StructuredAnalysis(ext) ==
    IF ext.raised \/ ~ValidRequirementAnalysis(Get(ext.value))
    THEN None
    ELSE ext.value

\* mutant: the fallback returns no reasoning text
AnalyzeRequirementsResultTextLost(reasoning_text, ext) ==
    LET analysis == StructuredAnalysis(ext)
    IN  [analyzed_requirements |-> analysis,
         requirement_cot |-> IF IsNone(analysis) THEN None ELSE Some(reasoning_text),
         reasoning_steps |->
            <<IF IsNone(analysis) THEN NoteAnalysisFailed ELSE NoteAnalysisOk>>]

\* the dictionary the node returns
AnalyzeRequirementsResult(reasoning_text, ext) ==
    LET analysis == StructuredAnalysis(ext)
    IN  [analyzed_requirements |-> analysis,
         requirement_cot |-> Some(reasoning_text),
         reasoning_steps |->
            <<IF IsNone(analysis) THEN NoteAnalysisFailed ELSE NoteAnalysisOk>>]

analyze_requirements ==
    /\ pc = "analyze_requirements"
    /\ \E cot \in LlmTextResponses("requirement_cot") :
          IF cot.raised
          THEN Raises("analyze_requirements", "cot", cot)
          ELSE \E ext \in AnalysisResponses :
                LET out == AnalyzeRequirementsResult(cot.content, ext)
                IN  /\ analyzed_requirements' =
                          LastValue(analyzed_requirements, out.analyzed_requirements)
                    /\ requirement_cot' = LastValue(requirement_cot, out.requirement_cot)
                    /\ reasoning_steps' = LastValue(reasoning_steps, out.reasoning_steps)
                    /\ llm_calls' = llm_calls \o
                          <<Call("analyze_requirements", "cot", cot),
                            Call("analyze_requirements", "structured", ext)>>
                    /\ trace' = Append(trace, "analyze_requirements")
                    /\ pc' = "decompose_tasks"
                    /\ UNCHANGED <<requirements, constraints, structured_tasks,
                                   task_breakdown, retrieved_services,
                                   task_service_candidates, final_composition,
                                   branches, response, discovery_calls>>

----------------------------------------------------------------------------
(* Stage 2: decompose_tasks *)

\* mutant: task_id=i, the index of enumerate without the + 1
AssignTaskIdsZeroBased(tasks_list) ==
    [i \in 1..Len(tasks_list) |->
        [task_id |-> i - 1,
         name |-> tasks_list[i].name,
         description |-> tasks_list[i].description,
         ml_keywords |-> tasks_list[i].ml_keywords]]

\* TaskDescription(task_id=i + 1, ...) for i, task in enumerate(tasks_list)
AssignTaskIds(tasks_list) ==
    [i \in 1..Len(tasks_list) |->
        [task_id |-> i,
         name |-> tasks_list[i].name,
         description |-> tasks_list[i].description,
         ml_keywords |-> tasks_list[i].ml_keywords]]

\* the task list: None when the extraction call raised or its answer does
\* not fit TaskExtractionResult
StructuredTasks(ext) ==
    IF ext.raised \/ ~ValidTaskExtraction(ext.tasks)
    THEN None
    ELSE Some(AssignTaskIds(ext.tasks))

\* mutant: the early return hands on an empty task list instead of None
DecomposeTasksFailFastEmptyList ==
    [task_breakdown |-> None,
     structured_tasks |-> Some(<<>>),
     retrieved_services |-> <<>>,
     task_service_candidates |-> None,
     reasoning_steps |-> <<NoteNoRequirements>>]

\* the dictionary the node returns without structured requirements
DecomposeTasksFailFast ==
    [task_breakdown |-> None,
     structured_tasks |-> None,
     retrieved_services |-> <<>>,
     task_service_candidates |-> None,
     reasoning_steps |-> <<NoteNoRequirements>>]

\* mutant: the except branch also drops the breakdown text
DecomposeTasksResultTextLost(task_breakdown_text, ext) ==
    LET tasks == StructuredTasks(ext)
    IN  [task_breakdown |->
            IF IsNone(tasks) THEN None ELSE Some(task_breakdown_text),
         structured_tasks |-> tasks,
         retrieved_services |-> <<>>,
         task_service_candidates |-> None,
         reasoning_steps |->
            <<IF IsNone(tasks) THEN NoteTasksFailed ELSE NoteTasksOk>>]

\* the dictionary the node returns after its two calls
DecomposeTasksResult(task_breakdown_text, ext) ==
    LET tasks == StructuredTasks(ext)
    IN  [task_breakdown |-> Some(task_breakdown_text),
         structured_tasks |-> tasks,
         retrieved_services |-> <<>>,
         task_service_candidates |-> None,
         reasoning_steps |->
            <<IF IsNone(tasks) THEN NoteTasksFailed ELSE NoteTasksOk>>]

DecomposeTasksWrites(out) ==
    /\ task_breakdown' = LastValue(task_breakdown, out.task_breakdown)
    /\ structured_tasks' = LastValue(structured_tasks, out.structured_tasks)
    /\ retrieved_services' = OperatorAdd(retrieved_services, out.retrieved_services)
    /\ task_service_candidates' =
          LastValue(task_service_candidates, out.task_service_candidates)
    /\ reasoning_steps' = LastValue(reasoning_steps, out.reasoning_steps)
    /\ trace' = Append(trace, "decompose_tasks")
    /\ pc' = "initiate_service_retrieval"
    /\ UNCHANGED <<requirements, constraints, analyzed_requirements, requirement_cot,
                   final_composition, branches, response, discovery_calls>>

decompose_tasks ==
    /\ pc = "decompose_tasks"
    /\ IF ~TruthyObject(analyzed_requirements)
       THEN /\ DecomposeTasksWrites(DecomposeTasksFailFast)
            /\ UNCHANGED llm_calls
       ELSE \E cot \in LlmTextResponses("task_decomposition_cot") :
              IF cot.raised
              THEN Raises("decompose_tasks", "cot", cot)
              ELSE \E ext \in TaskExtractionResponses :
                    LET out == DecomposeTasksResult(cot.content, ext)
                    IN  /\ DecomposeTasksWrites(out)
                        /\ llm_calls' = llm_calls \o
                              <<Call("decompose_tasks", "cot", cot),
                                Call("decompose_tasks", "structured", ext)>>

----------------------------------------------------------------------------
(* The conditional edge after decompose_tasks: initiate_service_retrieval *)

\* mutant: a single Send for the first task instead of one per task
SendsFirstTaskOnly(tasks) ==
    [i \in 1..1 |-> [task |-> tasks[i], status |-> "pending", out |-> <<>>]]

\* [Send("retrieve_task_services", {"task": task}) for task in structured_tasks]
Sends(tasks) ==
    [i \in 1..Len(tasks) |-> [task |-> tasks[i], status |-> "pending", out |-> <<>>]]

\* mutant: the tasks are routed straight to build_composition, as by an
\* edge from decompose_tasks to build_composition
initiate_service_retrieval_skips_retrieval ==
    /\ pc = "initiate_service_retrieval"
    /\ pc' = IF structured_tasks = None \/ Get(structured_tasks) = <<>>
             THEN "END"
             ELSE "build_composition"
    /\ UNCHANGED <<stateVars, branches, response, llm_calls, discovery_calls, trace>>

\* mutant: "if structured_tasks is None" instead of "if not structured_tasks"
initiate_service_retrieval_tests_none_only ==
    /\ pc = "initiate_service_retrieval"
    /\ IF structured_tasks = None
       THEN /\ pc' = "END"
            /\ UNCHANGED branches
       ELSE /\ pc' = "retrieve_task_services"
            /\ branches' = Sends(Get(structured_tasks))
    /\ UNCHANGED <<stateVars, response, llm_calls, discovery_calls, trace>>

initiate_service_retrieval ==
    /\ pc = "initiate_service_retrieval"
    /\ IF ~TruthyList(structured_tasks)
       THEN /\ pc' = "END"
            /\ UNCHANGED branches
       ELSE /\ pc' = "retrieve_task_services"
            /\ branches' = Sends(Get(structured_tasks))
    /\ UNCHANGED <<stateVars, response, llm_calls, discovery_calls, trace>>

----------------------------------------------------------------------------
(* Stage 3: retrieve_task_services, one instance per Send *)

\* json={"query": query, "k": 3}
TopK == 3

\* search_terms = [task.description] + task.ml_keywords, joined by spaces
Query(task) == <<task.description>> \o task.ml_keywords

\* source_path.split("/")[-1].replace(".md", "")
LastSegmentWithoutSuffix(source_path) ==
    CASE source_path = "services/asr.md" -> "asr"
      [] source_path = "services/sentiment.md" -> "sentiment"

\* f"unknown-{i}", i counted from 0
UnknownName(i) == <<"unknown-0", "unknown-1", "unknown-2", "unknown-3">>[i + 1]

ServiceName(source_path, i) ==
    IF source_path # "" THEN LastSegmentWithoutSuffix(source_path) ELSE UnknownName(i)

\* mutant: the entry is tagged with the position of the result, the i of
\* enumerate(results), instead of the task's identifier
ServiceEntryTaggedByPosition(task, result, i) ==
    [task_id |-> i,
     task_name |-> task.name,
     query |-> Query(task),
     service_name |-> ServiceName(result.metadata.source, i - 1),
     content |-> result.content]

\* the entry built for the result at position i (from 1) of the answer
ServiceEntry(task, result, i) ==
    [task_id |-> task.task_id,
     task_name |-> task.name,
     query |-> Query(task),
     service_name |-> ServiceName(result.metadata.source, i - 1),
     content |-> result.content]

\* whether the branch reaches its "return individual_services"
RetrievalSucceeds(resp) ==
    ~resp.raised /\ resp.status_code = 200 /\ resp.has_results

\* the list the branch returns under "retrieved_services"
RetrieveTaskServicesResult(task, resp) ==
    IF RetrievalSucceeds(resp)
    THEN [i \in 1..Len(resp.results) |-> ServiceEntry(task, resp.results[i], i)]
    ELSE <<>>

\* mutant: the graph moves on only when every instance has found services
SuperstepCompleteNeedsSuccess(bs) == \A i \in 1..Len(bs) : bs[i].status = "ok"

\* mutant: the graph moves on as soon as one instance has returned
SuperstepCompleteAfterFirst(bs) == \E i \in 1..Len(bs) : bs[i].status # "pending"

\* the superstep of the branches is over when every instance has returned
SuperstepComplete(bs) == \A i \in 1..Len(bs) : bs[i].status # "pending"

\* mutant: a failed request is not caught and raises out of its branch
retrieve_task_services_uncaught(i) ==
    /\ pc = "retrieve_task_services"
    /\ branches[i].status = "pending"
    /\ \E resp \in DiscoveryResponses :
          LET task == branches[i].task
              out == RetrieveTaskServicesResult(task, resp)
              after == [branches EXCEPT
                          ![i].status = IF RetrievalSucceeds(resp) THEN "ok" ELSE "failed",
                          ![i].out = out]
          IN  /\ branches' = after
              /\ retrieved_services' = OperatorAdd(retrieved_services, out)
              /\ discovery_calls' =
                    Append(discovery_calls,
                           [task_id |-> task.task_id, query |-> Query(task), k |-> TopK])
              /\ pc' = IF ~RetrievalSucceeds(resp) THEN "raised"
                       ELSE IF SuperstepComplete(after) THEN "build_composition"
                       ELSE pc
    /\ trace' = Append(trace, "retrieve_task_services")
    /\ UNCHANGED <<requirements, constraints, analyzed_requirements, requirement_cot,
                   structured_tasks, task_breakdown, task_service_candidates,
                   final_composition, reasoning_steps, response, llm_calls>>

\* mutant: the branch also returns a note under "reasoning_steps"
retrieve_task_services_writes_note(i) ==
    /\ pc = "retrieve_task_services"
    /\ branches[i].status = "pending"
    /\ \E resp \in DiscoveryResponses :
          LET task == branches[i].task
              out == RetrieveTaskServicesResult(task, resp)
              after == [branches EXCEPT
                          ![i].status = IF RetrievalSucceeds(resp) THEN "ok" ELSE "failed",
                          ![i].out = out]
          IN  /\ branches' = after
              /\ retrieved_services' = OperatorAdd(retrieved_services, out)
              /\ discovery_calls' =
                    Append(discovery_calls,
                           [task_id |-> task.task_id, query |-> Query(task), k |-> TopK])
              /\ pc' = IF SuperstepComplete(after) THEN "build_composition" ELSE pc
    /\ reasoning_steps' = LastValue(reasoning_steps, <<"Service retrieval completed">>)
    /\ trace' = Append(trace, "retrieve_task_services")
    /\ UNCHANGED <<requirements, constraints, analyzed_requirements, requirement_cot,
                   structured_tasks, task_breakdown, task_service_candidates,
                   final_composition, response, llm_calls>>

retrieve_task_services(i) ==
    /\ pc = "retrieve_task_services"
    /\ branches[i].status = "pending"
    /\ \E resp \in DiscoveryResponses :
          LET task == branches[i].task
              out == RetrieveTaskServicesResult(task, resp)
              after == [branches EXCEPT
                          ![i].status = IF RetrievalSucceeds(resp) THEN "ok" ELSE "failed",
                          ![i].out = out]
          IN  /\ branches' = after
              /\ retrieved_services' = OperatorAdd(retrieved_services, out)
              /\ discovery_calls' =
                    Append(discovery_calls,
                           [task_id |-> task.task_id, query |-> Query(task), k |-> TopK])
              /\ pc' = IF SuperstepComplete(after) THEN "build_composition" ELSE pc
    /\ trace' = Append(trace, "retrieve_task_services")
    /\ UNCHANGED <<requirements, constraints, analyzed_requirements, requirement_cot,
                   structured_tasks, task_breakdown, task_service_candidates,
                   final_composition, reasoning_steps, response, llm_calls>>

----------------------------------------------------------------------------
(* Stage 4: build_composition *)

\* the blueprint set: None when the extraction call raised or its answer
\* does not fit CompositionBlueprintAgentResponse
StructuredComposition(ext) ==
    IF ext.raised \/ ~ValidBlueprintSet(Get(ext.value))
    THEN None
    ELSE Some([alternatives |-> Get(ext.value).alternatives])

\* mutant: the early return writes the note of a failed generation
BuildCompositionFailFastNoteOfFailedGeneration ==
    [final_composition |-> None,
     reasoning_steps |-> <<NoteBuildFailed>>]

\* the dictionary the node returns without tasks or services
BuildCompositionFailFast ==
    [final_composition |-> None,
     reasoning_steps |-> <<NoteBuildMissing>>]

\* mutant: a failed extraction yields a blueprint set without alternatives
BuildCompositionResultEmptySet(composition_analysis, ext) ==
    LET composition == StructuredComposition(ext)
    IN  [final_composition |->
            IF IsNone(composition) THEN Some([alternatives |-> <<>>]) ELSE composition,
         reasoning_steps |->
            <<IF IsNone(composition) THEN NoteBuildFailed ELSE NoteBuildOk>>]

\* the dictionary the node returns after its two calls
BuildCompositionResult(composition_analysis, ext) ==
    LET composition == StructuredComposition(ext)
    IN  [final_composition |-> composition,
         reasoning_steps |->
            <<IF IsNone(composition) THEN NoteBuildFailed ELSE NoteBuildOk>>]

\* mutant: only the task list is tested, not the merged list
MissingRequiredDataTasksOnly(tasks, services) == ~TruthyList(tasks)

\* "if not structured_tasks or not retrieved_services"
MissingRequiredData(tasks, services) == ~TruthyList(tasks) \/ Len(services) = 0

\* mutant: the edge from retrieve_task_services starts build_composition
\* once for every branch that took it
BuildCompositionWritesOncePerBranch(out) ==
    LET IsBuilder(node) == node = "build_composition"
        runs == Len(SelectSeq(trace, IsBuilder)) + 1
    IN  /\ final_composition' = LastValue(final_composition, out.final_composition)
        /\ reasoning_steps' = LastValue(reasoning_steps, out.reasoning_steps)
        /\ trace' = Append(trace, "build_composition")
        /\ pc' = IF runs < Len(branches) THEN "build_composition" ELSE "END"
        /\ UNCHANGED <<requirements, constraints, analyzed_requirements, requirement_cot,
                       structured_tasks, task_breakdown, retrieved_services,
                       task_service_candidates, branches, response, discovery_calls>>

BuildCompositionWrites(out) ==
    /\ final_composition' = LastValue(final_composition, out.final_composition)
    /\ reasoning_steps' = LastValue(reasoning_steps, out.reasoning_steps)
    /\ trace' = Append(trace, "build_composition")
    /\ pc' = "END"
    /\ UNCHANGED <<requirements, constraints, analyzed_requirements, requirement_cot,
                   structured_tasks, task_breakdown, retrieved_services,
                   task_service_candidates, branches, response, discovery_calls>>

build_composition ==
    /\ pc = "build_composition"
    /\ IF MissingRequiredData(structured_tasks, retrieved_services)
       THEN /\ BuildCompositionWrites(BuildCompositionFailFast)
            /\ UNCHANGED llm_calls
       ELSE \E cot \in LlmTextResponses("composition_builder_cot") :
              IF cot.raised
              THEN Raises("build_composition", "cot", cot)
              ELSE \E ext \in BlueprintResponses :
                    LET out == BuildCompositionResult(cot.content, ext)
                    IN  /\ BuildCompositionWrites(out)
                        /\ llm_calls' = llm_calls \o
                              <<Call("build_composition", "cot", cot),
                                Call("build_composition", "structured", ext)>>

----------------------------------------------------------------------------
(* compose_with_langgraph: what follows "await graph.ainvoke(initial_state)" *)

compose_with_langgraph ==
    /\ response = "pending"
    /\ \/ /\ pc = "raised"
          /\ response' = "raised"
       \/ /\ pc = "END"
          /\ response' = IF ~TruthyObject(final_composition)
                         THEN "HTTPException"
                         ELSE "returned"
    /\ UNCHANGED <<pc, stateVars, branches, llm_calls, discovery_calls, trace>>

----------------------------------------------------------------------------
(* The web layer of the orchestrator (src/orchestrator/main.py): the stores *)
(* compositions and confirmed_compositions and the handlers compose,       *)
(* confirm, status and recompose.  Every request runs as a coroutine of    *)
(* one event loop: a handler without an await is one step, and compose and *)
(* recompose give way to other requests at every step of their graph run.  *)
(* Each run has a state of its own, the record built from initial_state.   *)
(* Timestamps (created_at, confirmed_at) are left out of the records.      *)

\* the most identifiers uuid.uuid4() hands out, one per compose or recompose
MaxCompositions == 2

CompositionIds == 1..MaxCompositions

\* a text is the sequence of its parts
ComposeRequests ==
    [requirements : {<<"transcribe audio then classify sentiment">>},
     constraints : {"{}"}]

\* the bodies a client may send to confirm; nothing ties the blueprint or
\* the requirements of a confirmation to the composition it names
Confirmations ==
    [confirmed_blueprint : {BlueprintChain},
     deployment_context : {"{region: eu}"},
     original_requirements : {<<"transcribe audio">>},
     selected_alternative : {0}]

NoTrigger ==
    [composition_id |-> 0, trigger_type |-> "", failure_evidence |-> "",
     failure_analysis |-> ""]

Triggers ==
    [composition_id : CompositionIds,
     trigger_type : {"performance_degradation"},
     failure_evidence : {"{latency_ms: 900, baseline_ms: 300}"},
     failure_analysis : {"transcription too slow"}]

\* what the reasoning capability and the repository answer to the runs of
\* the web layer: each call raises or returns one well-formed answer
RunAnalysisResponses ==
    {r \in AnalysisResponses :
        r.raised \/ Get(r.value).confidence_score = 10}

RunTaskExtractionResponses ==
    {[raised |-> TRUE, tasks |-> <<>>]}
        \cup {[raised |-> FALSE, tasks |-> <<t>>] : t \in {t \in RawTasks : t.extra = {}}}

RunDiscoveryResponses ==
    {r \in DiscoveryResponses :
        r.raised \/ (r.has_results /\ Len(r.results) = 1)}

RunBlueprintResponses ==
    {r \in BlueprintResponses :
        r.raised \/ Get(r.value) \in
            {[alternatives |-> <<>>, extra |-> {}],
             [alternatives |-> <<BlueprintChain>>, extra |-> {}]}}

\* initial_state of compose_with_langgraph
InitialState(reqs, cons) ==
    [pc |-> "analyze_requirements",
     requirements |-> reqs,
     constraints |-> cons,
     analyzed_requirements |-> None,
     requirement_cot |-> None,
     structured_tasks |-> None,
     task_breakdown |-> None,
     retrieved_services |-> OperatorAdd(<<>>, <<>>),
     task_service_candidates |-> None,
     final_composition |-> None,
     reasoning_steps |-> <<>>,
     branches |-> <<>>,
     llm_calls |-> <<>>,
     trace |-> <<>>]

\* enhanced_requirements: the original requirements and the trigger's
\* type, analysis and evidence between fixed lines of text
EnhancedRequirements(original_requirements, trigger) ==
    <<"Original Requirements:">> \o original_requirements
        \o <<"Previous Implementation Issues:",
             trigger.trigger_type, trigger.failure_analysis, trigger.failure_evidence,
             "Requirements for Improved Solution:">>

\* a store without records
EmptyStore == [id \in {} |-> None]

Without(store, id) == [k \in DOMAIN store \ {id} |-> store[k]]

NoResponse == [op |-> "none", composition_id |-> 0, status_code |-> 0, status |-> ""]

Response(op, id, code, status) ==
    [op |-> op, composition_id |-> id, status_code |-> code, status |-> status]

\* compositions = {} and confirmed_compositions = {} at import, no request
\* received, no identifier handed out
StoresEmpty ==
    /\ compositions = EmptyStore
    /\ confirmed_compositions = EmptyStore
    /\ running = EmptyStore
    /\ uuids = 0
    /\ last_response = NoResponse

\* store[id] = record
Put(store, id, record) == (id :> record) @@ store

\* the run of request r moves to state t; nothing else changes
RunStep(r, t) ==
    /\ running' = [running EXCEPT ![r].run = t]
    /\ UNCHANGED <<compositions, confirmed_compositions, uuids, last_response, graphVars>>

\* an exception leaves the node and the graph of run s
RunRaises(s, node, kind, resp) ==
    [s EXCEPT !.pc = "raised",
              !.llm_calls = Append(@, Call(node, kind, resp)),
              !.trace = Append(@, node)]

run_analyze_requirements(r) ==
    LET s == running[r].run
    IN  /\ s.pc = "analyze_requirements"
        /\ \E cot \in LlmTextResponses("requirement_cot") :
              IF cot.raised
              THEN RunStep(r, RunRaises(s, "analyze_requirements", "cot", cot))
              ELSE \E ext \in RunAnalysisResponses :
                    LET out == AnalyzeRequirementsResult(cot.content, ext)
                    IN  RunStep(r,
                          [s EXCEPT
                             !.analyzed_requirements =
                                 LastValue(@, out.analyzed_requirements),
                             !.requirement_cot = LastValue(@, out.requirement_cot),
                             !.reasoning_steps = LastValue(@, out.reasoning_steps),
                             !.llm_calls = @ \o
                                 <<Call("analyze_requirements", "cot", cot),
                                   Call("analyze_requirements", "structured", ext)>>,
                             !.trace = Append(@, "analyze_requirements"),
                             !.pc = "decompose_tasks"])

\* the state of run s after decompose_tasks returned out
RunDecomposeTasksWrites(s, out) ==
    [s EXCEPT
       !.task_breakdown = LastValue(@, out.task_breakdown),
       !.structured_tasks = LastValue(@, out.structured_tasks),
       !.retrieved_services = OperatorAdd(@, out.retrieved_services),
       !.task_service_candidates = LastValue(@, out.task_service_candidates),
       !.reasoning_steps = LastValue(@, out.reasoning_steps),
       !.trace = Append(@, "decompose_tasks"),
       !.pc = "initiate_service_retrieval"]

run_decompose_tasks(r) ==
    LET s == running[r].run
    IN  /\ s.pc = "decompose_tasks"
        /\ IF ~TruthyObject(s.analyzed_requirements)
           THEN RunStep(r, RunDecomposeTasksWrites(s, DecomposeTasksFailFast))
           ELSE \E cot \in LlmTextResponses("task_decomposition_cot") :
                  IF cot.raised
                  THEN RunStep(r, RunRaises(s, "decompose_tasks", "cot", cot))
                  ELSE \E ext \in RunTaskExtractionResponses :
                        LET out == DecomposeTasksResult(cot.content, ext)
                            t == RunDecomposeTasksWrites(s, out)
                        IN  RunStep(r,
                              [t EXCEPT !.llm_calls = @ \o
                                  <<Call("decompose_tasks", "cot", cot),
                                    Call("decompose_tasks", "structured", ext)>>])

run_initiate_service_retrieval(r) ==
    LET s == running[r].run
    IN  /\ s.pc = "initiate_service_retrieval"
        /\ IF ~TruthyList(s.structured_tasks)
           THEN RunStep(r, [s EXCEPT !.pc = "END"])
           ELSE RunStep(r, [s EXCEPT !.pc = "retrieve_task_services",
                                     !.branches = Sends(Get(s.structured_tasks))])

\* the state of run s after the instance for its i-th task got answer resp
RunRetrieveTaskServicesWrites(s, i, resp) ==
    LET out == RetrieveTaskServicesResult(s.branches[i].task, resp)
        after == [s.branches EXCEPT
                    ![i].status = IF RetrievalSucceeds(resp) THEN "ok" ELSE "failed",
                    ![i].out = out]
    IN  [s EXCEPT
           !.branches = after,
           !.retrieved_services = OperatorAdd(@, out),
           !.trace = Append(@, "retrieve_task_services"),
           !.pc = IF SuperstepComplete(after) THEN "build_composition" ELSE @]

\* mutant: the instances of every run append to one list shared by all runs
run_retrieve_task_services_shared_list(r, i) ==
    LET s == running[r].run
    IN  /\ s.pc = "retrieve_task_services"
        /\ i \in 1..Len(s.branches)
        /\ s.branches[i].status = "pending"
        /\ \E resp \in RunDiscoveryResponses :
              LET out == RetrieveTaskServicesResult(s.branches[i].task, resp)
              IN  /\ running' =
                        [k \in DOMAIN running |->
                            IF k = r
                            THEN [running[k] EXCEPT
                                    !.run = RunRetrieveTaskServicesWrites(s, i, resp)]
                            ELSE [running[k] EXCEPT
                                    !.run.retrieved_services = OperatorAdd(@, out)]]
                  /\ UNCHANGED <<compositions, confirmed_compositions, uuids,
                                 last_response, graphVars>>

run_retrieve_task_services(r, i) ==
    LET s == running[r].run
    IN  /\ s.pc = "retrieve_task_services"
        /\ i \in 1..Len(s.branches)
        /\ s.branches[i].status = "pending"
        /\ \E resp \in RunDiscoveryResponses :
              RunStep(r, RunRetrieveTaskServicesWrites(s, i, resp))

\* the state of run s after build_composition returned out
RunBuildCompositionWrites(s, out) ==
    [s EXCEPT
       !.final_composition = LastValue(@, out.final_composition),
       !.reasoning_steps = LastValue(@, out.reasoning_steps),
       !.trace = Append(@, "build_composition"),
       !.pc = "END"]

run_build_composition(r) ==
    LET s == running[r].run
    IN  /\ s.pc = "build_composition"
        /\ IF MissingRequiredData(s.structured_tasks, s.retrieved_services)
           THEN RunStep(r, RunBuildCompositionWrites(s, BuildCompositionFailFast))
           ELSE \E cot \in LlmTextResponses("composition_builder_cot") :
                  IF cot.raised
                  THEN RunStep(r, RunRaises(s, "build_composition", "cot", cot))
                  ELSE \E ext \in RunBlueprintResponses :
                        LET out == BuildCompositionResult(cot.content, ext)
                            t == RunBuildCompositionWrites(s, out)
                        IN  RunStep(r,
                              [t EXCEPT !.llm_calls = @ \o
                                  <<Call("build_composition", "cot", cot),
                                    Call("build_composition", "structured", ext)>>])

\* how compose_with_langgraph ends for a run that is over: graph.ainvoke
\* raised, the result holds no final composition, or it returns it
ComposeWithLanggraphOutcome(s) ==
    IF s.pc = "raised" THEN "raised"
    ELSE IF ~TruthyObject(s.final_composition) THEN "HTTPException"
    ELSE "returned"

RunOver(s) == s.pc \in {"END", "raised"}

----------------------------------------------------------------------------
(* POST /api/v1/compose *)

\* the record compose_services stores; the keys only a recomposition sets
\* are held here with the values of "no original"
ComposedRecord(id, blueprints) ==
    [composition_id |-> id,
     status |-> "success",
     blueprints |-> blueprints,
     original_composition_id |-> 0,
     recomposition_trigger |-> NoTrigger]

\* composition_id = str(uuid.uuid4()), then the await of the run begins
compose_services_begins(request) ==
    /\ uuids < MaxCompositions
    /\ uuids' = uuids + 1
    /\ running' = Put(running, uuids + 1,
                      [op |-> "compose",
                       trigger |-> NoTrigger,
                       run |-> InitialState(request.requirements, request.constraints)])
    /\ UNCHANGED <<compositions, confirmed_compositions, last_response, graphVars>>

\* mutant: compose_with_langgraph returns the final composition untested
\* and the handler stores whatever it got
compose_services_returns_untested(r) ==
    /\ running[r].op = "compose"
    /\ RunOver(running[r].run)
    /\ IF running[r].run.pc = "END"
       THEN /\ compositions' =
                  Put(compositions, r,
                      ComposedRecord(r,
                          IF running[r].run.final_composition = None
                          THEN None
                          ELSE Get(running[r].run.final_composition)))
            /\ last_response' = Response("compose", r, 200, "success")
       ELSE /\ UNCHANGED compositions
            /\ last_response' = Response("compose", r, 500, "")
    /\ running' = Without(running, r)
    /\ UNCHANGED <<confirmed_compositions, uuids, graphVars>>

\* the run is over: the exception of compose_with_langgraph leaves the
\* handler, or the composition is stored and returned
compose_services_returns(r) ==
    /\ running[r].op = "compose"
    /\ RunOver(running[r].run)
    /\ IF ComposeWithLanggraphOutcome(running[r].run) = "returned"
       THEN /\ compositions' =
                  Put(compositions, r,
                      ComposedRecord(r, Get(running[r].run.final_composition)))
            /\ last_response' = Response("compose", r, 200, "success")
       ELSE /\ UNCHANGED compositions
            /\ last_response' = Response("compose", r, 500, "")
    /\ running' = Without(running, r)
    /\ UNCHANGED <<confirmed_compositions, uuids, graphVars>>

----------------------------------------------------------------------------
(* POST /api/v1/compositions/{composition_id}/confirm *)

\* mutant: the record embeds a copy of the composition marked as confirmed
ConfirmedRecordMarksOriginal(id, original_composition, confirmation) ==
    [composition_id |-> id,
     original_composition |-> [original_composition EXCEPT !.status = "confirmed"],
     confirmed_blueprint |-> confirmation.confirmed_blueprint,
     deployment_context |-> confirmation.deployment_context,
     original_requirements |-> confirmation.original_requirements,
     selected_alternative |-> confirmation.selected_alternative,
     status |-> "deployed"]

ConfirmedRecord(id, original_composition, confirmation) ==
    [composition_id |-> id,
     original_composition |-> original_composition,
     confirmed_blueprint |-> confirmation.confirmed_blueprint,
     deployment_context |-> confirmation.deployment_context,
     original_requirements |-> confirmation.original_requirements,
     selected_alternative |-> confirmation.selected_alternative,
     status |-> "deployed"]

\* mutant: the handler does not verify that the composition exists
confirm_composition_unverified(id, confirmation) ==
    /\ confirmed_compositions' =
          Put(confirmed_compositions, id,
              ConfirmedRecord(id,
                  IF id \in DOMAIN compositions
                  THEN compositions[id]
                  ELSE ComposedRecord(id, [alternatives |-> <<>>]),
                  confirmation))
    /\ last_response' = Response("confirm", id, 200, "confirmed")
    /\ UNCHANGED <<compositions, running, uuids, graphVars>>

confirm_composition(id, confirmation) ==
    /\ IF id \notin DOMAIN compositions
       THEN /\ last_response' = Response("confirm", id, 404, "")
            /\ UNCHANGED confirmed_compositions
       ELSE /\ confirmed_compositions' =
                  Put(confirmed_compositions, id,
                      ConfirmedRecord(id, compositions[id], confirmation))
            /\ last_response' = Response("confirm", id, 200, "confirmed")
    /\ UNCHANGED <<compositions, running, uuids, graphVars>>

----------------------------------------------------------------------------
(* GET /api/v1/compositions/{composition_id}/status *)

\* mutant: the compositions store is looked up before the confirmed one
CompositionStatusOfCreatedFirst(id) ==
    IF id \in DOMAIN compositions
    THEN Response("status", id, 200, "created")
    ELSE IF id \in DOMAIN confirmed_compositions
         THEN Response("status", id, 200, confirmed_compositions[id].status)
         ELSE Response("status", id, 404, "")

\* the answer of the handler: the confirmed record's status, "created", or 404
CompositionStatusOf(id) ==
    IF id \in DOMAIN confirmed_compositions
    THEN Response("status", id, 200, confirmed_compositions[id].status)
    ELSE IF id \in DOMAIN compositions
         THEN Response("status", id, 200, "created")
         ELSE Response("status", id, 404, "")

get_composition_status(id) ==
    /\ last_response' = CompositionStatusOf(id)
    /\ UNCHANGED <<compositions, confirmed_compositions, running, uuids, graphVars>>

----------------------------------------------------------------------------
(* POST /api/v1/recompose *)

\* the trigger names a composition that is not in confirmed_compositions
recompose_composition_not_found(trigger) ==
    /\ trigger.composition_id \notin DOMAIN confirmed_compositions
    /\ last_response' = Response("recompose", trigger.composition_id, 404, "")
    /\ UNCHANGED <<compositions, confirmed_compositions, running, uuids, graphVars>>

\* mutant: the handler verifies the trigger against the compositions store
recompose_composition_begins_if_composed(trigger) ==
    /\ trigger.composition_id \in DOMAIN compositions
    /\ uuids < MaxCompositions
    /\ LET original_context ==
              IF trigger.composition_id \in DOMAIN confirmed_compositions
              THEN confirmed_compositions[trigger.composition_id]
              ELSE [original_requirements |-> <<>>, deployment_context |-> "{}"]
       IN  running' =
              Put(running, uuids + 1,
                  [op |-> "recompose",
                   trigger |-> trigger,
                   run |-> InitialState(
                       EnhancedRequirements(original_context.original_requirements,
                                            trigger),
                       original_context.deployment_context)])
    /\ uuids' = uuids + 1
    /\ UNCHANGED <<compositions, confirmed_compositions, last_response, graphVars>>

\* mutant: the run starts from the blueprints of the original composition
recompose_composition_begins_from_original(trigger) ==
    /\ trigger.composition_id \in DOMAIN confirmed_compositions
    /\ uuids < MaxCompositions
    /\ LET original_context == confirmed_compositions[trigger.composition_id]
           fresh == InitialState(
                       EnhancedRequirements(original_context.original_requirements,
                                            trigger),
                       original_context.deployment_context)
       IN  running' =
              Put(running, uuids + 1,
                  [op |-> "recompose",
                   trigger |-> trigger,
                   run |-> [fresh EXCEPT !.final_composition =
                               Some(original_context.original_composition.blueprints)]])
    /\ uuids' = uuids + 1
    /\ UNCHANGED <<compositions, confirmed_compositions, last_response, graphVars>>

\* the trigger names a confirmed composition: the confirmed record is read,
\* the requirements are built, new_composition_id is drawn, and the await of
\* the run begins
recompose_composition_begins(trigger) ==
    /\ trigger.composition_id \in DOMAIN confirmed_compositions
    /\ uuids < MaxCompositions
    /\ LET original_context == confirmed_compositions[trigger.composition_id]
       IN  running' =
              Put(running, uuids + 1,
                  [op |-> "recompose",
                   trigger |-> trigger,
                   run |-> InitialState(
                       EnhancedRequirements(original_context.original_requirements,
                                            trigger),
                       original_context.deployment_context)])
    /\ uuids' = uuids + 1
    /\ UNCHANGED <<compositions, confirmed_compositions, last_response, graphVars>>

\* the record recompose_composition stores
RecomposedRecord(id, blueprints, trigger) ==
    [composition_id |-> id,
     status |-> "recomposed",
     blueprints |-> blueprints,
     original_composition_id |-> trigger.composition_id,
     recomposition_trigger |-> trigger]

\* mutant: the record is stored before the run and stays when the run fails
recompose_composition_returns_keeps_partial(r) ==
    /\ running[r].op = "recompose"
    /\ RunOver(running[r].run)
    /\ IF ComposeWithLanggraphOutcome(running[r].run) = "returned"
       THEN /\ compositions' =
                  Put(compositions, r,
                      RecomposedRecord(r, Get(running[r].run.final_composition),
                                       running[r].trigger))
            /\ last_response' = Response("recompose", r, 200, "recomposed")
       ELSE /\ compositions' =
                  Put(compositions, r,
                      RecomposedRecord(r, [alternatives |-> <<>>], running[r].trigger))
            /\ last_response' =
                  Response("recompose", running[r].trigger.composition_id, 500, "")
    /\ running' = Without(running, r)
    /\ UNCHANGED <<confirmed_compositions, uuids, graphVars>>

\* mutant: the new composition replaces the original under its identifier
recompose_composition_returns_replaces_original(r) ==
    /\ running[r].op = "recompose"
    /\ RunOver(running[r].run)
    /\ IF ComposeWithLanggraphOutcome(running[r].run) = "returned"
       THEN /\ compositions' =
                  Put(compositions, running[r].trigger.composition_id,
                      RecomposedRecord(r, Get(running[r].run.final_composition),
                                       running[r].trigger))
            /\ last_response' = Response("recompose", r, 200, "recomposed")
       ELSE /\ UNCHANGED compositions
            /\ last_response' =
                  Response("recompose", running[r].trigger.composition_id, 500, "")
    /\ running' = Without(running, r)
    /\ UNCHANGED <<confirmed_compositions, uuids, graphVars>>

\* the run is over: every exception becomes HTTPException(500), or the new
\* composition is stored and returned
recompose_composition_returns(r) ==
    /\ running[r].op = "recompose"
    /\ RunOver(running[r].run)
    /\ IF ComposeWithLanggraphOutcome(running[r].run) = "returned"
       THEN /\ compositions' =
                  Put(compositions, r,
                      RecomposedRecord(r, Get(running[r].run.final_composition),
                                       running[r].trigger))
            /\ last_response' = Response("recompose", r, 200, "recomposed")
       ELSE /\ UNCHANGED compositions
            /\ last_response' =
                  Response("recompose", running[r].trigger.composition_id, 500, "")
    /\ running' = Without(running, r)
    /\ UNCHANGED <<confirmed_compositions, uuids, graphVars>>

----------------------------------------------------------------------------

\* no graph run outside a request: the variables of the single run are idle
NoGraphRun ==
    /\ pc = "END"
    /\ requirements = ""
    /\ constraints = "{}"
    /\ analyzed_requirements = None
    /\ requirement_cot = None
    /\ structured_tasks = None
    /\ task_breakdown = None
    /\ retrieved_services = <<>>
    /\ task_service_candidates = None
    /\ final_composition = None
    /\ reasoning_steps = <<>>
    /\ branches = <<>>
    /\ response = "returned"
    /\ llm_calls = <<>>
    /\ discovery_calls = <<>>
    /\ trace = <<>>

\* the monitoring service does not run
NoMonitoringRun ==
    /\ mon_pc = "idle"
    /\ all_data = <<>>
    /\ composition_id = None
    /\ offered = 0
    /\ stored_count = 0
    /\ degradation_analysis = None
    /\ posts = <<>>
    /\ in_flight = None
    /\ answers = <<>>
    /\ orchestrator_response = None
    /\ monitoring_result = None

WebInit == StoresEmpty /\ NoGraphRun /\ NoMonitoringRun

WebNext ==
    \/ \E request \in ComposeRequests : compose_services_begins(request)
          /\ UNCHANGED monVars
    \/ \E r \in DOMAIN running : run_analyze_requirements(r)
          /\ UNCHANGED monVars
    \/ \E r \in DOMAIN running : run_decompose_tasks(r) /\ UNCHANGED monVars
    \/ \E r \in DOMAIN running : run_initiate_service_retrieval(r)
          /\ UNCHANGED monVars
    \/ \E r \in DOMAIN running : \E i \in 1..Len(running[r].run.branches) :
          run_retrieve_task_services(r, i) /\ UNCHANGED monVars
    \/ \E r \in DOMAIN running : run_build_composition(r) /\ UNCHANGED monVars
    \/ \E r \in DOMAIN running : compose_services_returns(r)
          /\ UNCHANGED monVars
    \/ \E id \in CompositionIds : \E confirmation \in Confirmations :
          confirm_composition(id, confirmation) /\ UNCHANGED monVars
    \/ \E id \in CompositionIds : get_composition_status(id)
          /\ UNCHANGED monVars
    \/ \E trigger \in Triggers : recompose_composition_not_found(trigger)
          /\ UNCHANGED monVars
    \/ \E trigger \in Triggers : recompose_composition_begins(trigger)
          /\ UNCHANGED monVars
    \/ \E r \in DOMAIN running : recompose_composition_returns(r)
          /\ UNCHANGED monVars

WebSpec == WebInit /\ [][WebNext]_vars

----------------------------------------------------------------------------
(* The single graph run; the web layer is idle *)

Next ==
    \/ analyze_requirements /\ UNCHANGED <<webVars, monVars>>
    \/ decompose_tasks /\ UNCHANGED <<webVars, monVars>>
    \/ initiate_service_retrieval /\ UNCHANGED <<webVars, monVars>>
    \/ \E i \in 1..Len(branches) : retrieve_task_services(i) /\ UNCHANGED <<webVars, monVars>>
    \/ build_composition /\ UNCHANGED <<webVars, monVars>>
    \/ compose_with_langgraph /\ UNCHANGED <<webVars, monVars>>

\* one graph run in a process that serves no request
SpecInit == Init /\ StoresEmpty /\ NoMonitoringRun

Spec == SpecInit /\ [][Next]_vars

\* every external call returns or raises, and the event loop keeps running
\* whatever is ready
FairSpec == Spec /\ WF_vars(Next)

----------------------------------------------------------------------------
(* The monitoring service: src/monitoring-service                          *)
(*                                                                         *)
(* A processed run is a record of its controller type, its timestamp and   *)
(* the three metrics the detector reads.  The metrics are integers here;   *)
(* a mean is kept as the pair of the sum and the count, and a standard     *)
(* deviation by its square, a fraction, so that every comparison of the    *)
(* detector is made exactly.  The z-scores themselves, which the detector  *)
(* also returns, are not kept: only the comparisons made with them are.    *)

\* the most runs process_all_files_chronologically hands on
MaxRuns == 4

\* the runs below this count are the baseline
RollingBaselineSize == 2

\* the fewest runs of one controller type the detector works with
MinSameControllerRuns == 3

\* the z-score a metric must exceed: the 2-sigma rule
SigmaThreshold == 2

\* the least standard deviation a z-score is taken over, 0.1, as a fraction
StdFloor == [num |-> 1, den |-> 10]

\* the standard deviation taken for a count that is 0 in every baseline run
UnitStd == [num |-> 1, den |-> 1]

\* the share of the mean taken as deviation of a single-run baseline, 0.2
SingleRunNavShare == [num |-> 2, den |-> 10]

\* the share of the mean taken as deviation of a single-run count, 0.5
SingleRunCountShare == [num |-> 5, den |-> 10]

Min(a, b) == IF a < b THEN a ELSE b

Field(runs, f) == [i \in 1..Len(runs) |-> runs[i][f]]

\* [d for d in processed_data
\*    if d['controller_type'] == processed_data[0]['controller_type']]
SameControllerRuns(processed_data) ==
    SelectSeq(processed_data,
              LAMBDA d : d.controller_type = processed_data[1].controller_type)

\* list.sort(key=timestamp): runs with equal timestamps keep their order
RECURSIVE InsertByTimestamp(_, _)
InsertByTimestamp(sorted, run) ==
    IF sorted = <<>> THEN <<run>>
    ELSE IF sorted[Len(sorted)].timestamp <= run.timestamp
         THEN Append(sorted, run)
         ELSE Append(InsertByTimestamp(SubSeq(sorted, 1, Len(sorted) - 1), run),
                     sorted[Len(sorted)])

RECURSIVE SortByTimestamp(_)
SortByTimestamp(runs) ==
    IF runs = <<>> THEN <<>>
    ELSE InsertByTimestamp(SortByTimestamp(SubSeq(runs, 1, Len(runs) - 1)),
                           runs[Len(runs)])

\* statistics.mean, as sum over count
Mean(xs) == [sum |-> SumSeq(xs), n |-> Len(xs)]

\* the square of statistics.stdev, the sample variance:
\* (n * sum of squares - square of the sum) / (n * (n - 1))
StdevSquared(xs) ==
    [num |-> Len(xs) * SumSeq([i \in 1..Len(xs) |-> xs[i] * xs[i]])
                - SumSeq(xs) * SumSeq(xs),
     den |-> Len(xs) * (Len(xs) - 1)]

Squared(q) == [num |-> q.num * q.num, den |-> q.den * q.den]

\* max of two non-negative deviations, given by their squares
MaxSquared(p, q) == IF p.num * q.den >= q.num * p.den THEN p ELSE q

MaxOf(xs) == CHOOSE x \in {xs[i] : i \in 1..Len(xs)} :
                \A i \in 1..Len(xs) : xs[i] <= x

\* baseline_nav_std, squared
BaselineNavStdSquared(xs) ==
    IF Len(xs) > 1
    THEN StdevSquared(xs)
    ELSE \* mean * 0.2
         [num |-> SumSeq(xs) * SumSeq(xs) * SingleRunNavShare.num * SingleRunNavShare.num,
          den |-> Len(xs) * Len(xs) * SingleRunNavShare.den * SingleRunNavShare.den]

\* baseline_collision_std and baseline_recovery_std, squared
BaselineCountStdSquared(xs) ==
    IF Len(xs) > 1
    THEN IF MaxOf(xs) > 0 THEN StdevSquared(xs) ELSE Squared(UnitStd)
    ELSE \* max(1.0, mean * 0.5)
         MaxSquared(Squared(UnitStd),
                    [num |-> SumSeq(xs) * SumSeq(xs)
                                * SingleRunCountShare.num * SingleRunCountShare.num,
                     den |-> Len(xs) * Len(xs)
                                * SingleRunCountShare.den * SingleRunCountShare.den])

\* x > mean
AboveMean(x, mean) == x * mean.n > mean.sum

\* abs(x - mean) / max(std, 0.1) > 2.0, compared on the squares:
\* (x - mean)^2 > 2^2 * max(std, 0.1)^2
ZScoreBeyondThreshold(x, mean, std_squared) ==
    LET std == MaxSquared(std_squared, Squared(StdFloor))
        dev == x * mean.n - mean.sum
    IN  dev * dev * std.den > SigmaThreshold * SigmaThreshold * std.num * mean.n * mean.n

\* mutant: a metric counts as degraded when it is far from the mean on
\* either side
MetricDegradedEitherSide(x, mean, std_squared) ==
    ZScoreBeyondThreshold(x, mean, std_squared)

\* (value > baseline mean) and (z-score > 2.0)
MetricDegraded(x, mean, std_squared) ==
    AboveMean(x, mean) /\ ZScoreBeyondThreshold(x, mean, std_squared)

BaselineMetrics(baseline_runs) ==
    [navigation_time |-> Mean(Field(baseline_runs, "navigation_time")),
     collision_count |-> Mean(Field(baseline_runs, "collision_count")),
     recovery_count |-> Mean(Field(baseline_runs, "recovery_count"))]

\* nav_degraded, collision_spike and recovery_spike of one run
DegradationEvidence(run, baseline_runs) ==
    LET baseline_metrics == BaselineMetrics(baseline_runs)
    IN  [navigation_time_degraded |->
            MetricDegraded(run.navigation_time, baseline_metrics.navigation_time,
                BaselineNavStdSquared(Field(baseline_runs, "navigation_time"))),
         collision_spike |->
            MetricDegraded(run.collision_count, baseline_metrics.collision_count,
                BaselineCountStdSquared(Field(baseline_runs, "collision_count"))),
         recovery_spike |->
            MetricDegraded(run.recovery_count, baseline_metrics.recovery_count,
                BaselineCountStdSquared(Field(baseline_runs, "recovery_count")))]

RunDegraded(run, baseline_runs) ==
    LET evidence == DegradationEvidence(run, baseline_runs)
    IN  \/ evidence.navigation_time_degraded
        \/ evidence.collision_spike
        \/ evidence.recovery_spike

\* detect_performance_degradation_rolling_baseline: None, or the first run
\* after the baseline that is degraded, or the report that none is;
\* run_index counts from 0 as the list index does
DetectPerformanceDegradationRollingBaseline(processed_data) ==
    LET unsorted == SameControllerRuns(processed_data)
        same_controller_runs == SortByTimestamp(unsorted)
        baseline_size == Min(RollingBaselineSize, Len(same_controller_runs) - 1)
        baseline_runs == SubSeq(same_controller_runs, 1, baseline_size)
        degraded == {i \in baseline_size + 1..Len(same_controller_runs) :
                        RunDegraded(same_controller_runs[i], baseline_runs)}
    IN  IF Len(unsorted) < MinSameControllerRuns
        THEN None
        ELSE IF degraded # {}
        THEN LET i == CHOOSE j \in degraded : \A k \in degraded : j <= k
             IN  Some([degradation_detected |-> TRUE,
                       degraded_run |-> same_controller_runs[i],
                       run_index |-> i - 1,
                       baseline_size |-> baseline_size,
                       baseline_metrics |-> BaselineMetrics(baseline_runs),
                       degradation_evidence |->
                           DegradationEvidence(same_controller_runs[i], baseline_runs),
                       objective_analysis |-> "Statistical outlier detected"])
        ELSE Some([degradation_detected |-> FALSE,
                   baseline_metrics |-> BaselineMetrics(baseline_runs),
                   objective_analysis |->
                       "All runs within normal statistical variation"])

\* controller_type is the controller named in the results file, in capitals
ControllerTypes == {"DWB", "MPPI"}

Metrics(nav, collisions, recoveries) ==
    [navigation_time |-> nav, collision_count |-> collisions,
     recovery_count |-> recoveries]

\* the results a file may hold: usual navigation times, a navigation far
\* shorter, and collisions or recoveries in an otherwise usual run
RunKinds ==
    {[controller_type |-> "DWB", metrics |-> m] :
        m \in {Metrics(10, 0, 0), Metrics(12, 0, 0), Metrics(13, 0, 0),
               Metrics(1, 0, 0), Metrics(10, 2, 0), Metrics(10, 3, 0),
               Metrics(10, 0, 3)}}
        \cup {[controller_type |-> "MPPI", metrics |-> Metrics(10, 0, 0)]}

ProcessedRun(kind, timestamp) ==
    [controller_type |-> kind.controller_type,
     timestamp |-> timestamp,
     navigation_time |-> kind.metrics.navigation_time,
     collision_count |-> kind.metrics.collision_count,
     recovery_count |-> kind.metrics.recovery_count]

\* a list of n runs of the given kinds whose timestamps rise or fall along
\* the list
ProcessedRuns(n, kinds, rising) ==
    [i \in 1..n |-> ProcessedRun(kinds[i], IF rising THEN i ELSE n + 1 - i)]

\* a call of the detector on its own, with one to MaxRuns runs
DetectorInit ==
    /\ StoresEmpty
    /\ NoGraphRun
    /\ mon_pc = "detector_called"
    /\ \E n \in 1..MaxRuns : \E kinds \in [1..n -> RunKinds] : \E rising \in BOOLEAN :
          all_data = ProcessedRuns(n, kinds, rising)
    /\ composition_id = None
    /\ offered = 0
    /\ stored_count = 0
    /\ degradation_analysis = None
    /\ posts = <<>>
    /\ in_flight = None
    /\ answers = <<>>
    /\ orchestrator_response = None
    /\ monitoring_result = None

detect_performance_degradation_rolling_baseline ==
    /\ mon_pc = "detector_called"
    /\ degradation_analysis' = DetectPerformanceDegradationRollingBaseline(all_data)
    /\ mon_pc' = "detector_returned"
    /\ UNCHANGED <<all_data, composition_id, offered, stored_count, posts, in_flight,
                   answers, orchestrator_response, monitoring_result>>
    /\ UNCHANGED <<graphVars, webVars>>

DetectorNext == detect_performance_degradation_rolling_baseline

DetectorSpec == DetectorInit /\ [][DetectorNext]_vars

----------------------------------------------------------------------------
(* One run of run_chronological_monitoring against the orchestrator.       *)
(*                                                                         *)
(* The pipeline is sequential: it hands every processed run to the         *)
(* database, calls the detector, and on degradation posts one trigger and  *)
(* waits for requests.post to return or raise.  The orchestrator serves    *)
(* that request with the handler of /api/v1/recompose modelled above.      *)

\* the id sent when the run was started without one: the string "unknown",
\* which uuid.uuid4() never hands out
UnknownId == 0

\* mutant: a run started without an id names the deployed composition
CompositionIdOrDeployed(id) == IF id = None THEN 1 ELSE Get(id)

\* composition_id or "unknown"
CompositionIdOrUnknown(id) == IF id = None THEN UnknownId ELSE Get(id)

\* the runs the pipeline is fed: usual ones and slow ones of one controller
MonitoredRunKinds ==
    {[controller_type |-> "DWB", metrics |-> m] :
        m \in {Metrics(10, 0, 0), Metrics(13, 0, 0)}}

\* the composition a client had composed and confirmed before the run
DeployedComposition == ComposedRecord(1, [alternatives |-> <<BlueprintChain>>])

DeployedConfirmation ==
    ConfirmedRecord(1, DeployedComposition,
                    CHOOSE confirmation \in Confirmations : TRUE)

\* the orchestrator either has served nothing yet or holds one confirmed
\* composition; responses to earlier requests are not kept
OrchestratorStores ==
    {[compositions |-> EmptyStore, confirmed_compositions |-> EmptyStore,
      uuids |-> 0],
     [compositions |-> 1 :> DeployedComposition,
      confirmed_compositions |-> 1 :> DeployedConfirmation,
      uuids |-> 1]}

\* the pipeline is called on a scenario, with or without a composition id
MonitoringInit ==
    /\ NoGraphRun
    /\ \E stores \in OrchestratorStores :
          /\ compositions = stores.compositions
          /\ confirmed_compositions = stores.confirmed_compositions
          /\ uuids = stores.uuids
    /\ running = EmptyStore
    /\ last_response = NoResponse
    /\ mon_pc = "store"
    \* process_all_files_chronologically: the files that exist and load, in
    \* the order of file_sequence, with timestamps rising along it
    /\ \E n \in 0..MaxRuns : \E kinds \in [1..n -> MonitoredRunKinds] :
          all_data = ProcessedRuns(n, kinds, TRUE)
    /\ composition_id \in {None, Some(1)}
    /\ offered = 0
    /\ stored_count = 0
    /\ degradation_analysis = None
    /\ posts = <<>>
    /\ in_flight = None
    /\ answers = <<>>
    /\ orchestrator_response = None
    /\ monitoring_result = None

\* if not all_data: return {'success': False, 'error': 'No data available'}
no_data_available ==
    /\ mon_pc = "store"
    /\ all_data = <<>>
    /\ monitoring_result' = Some([success |-> FALSE, error |-> "No data available"])
    /\ mon_pc' = "returned"
    /\ UNCHANGED <<all_data, composition_id, offered, stored_count,
                   degradation_analysis, posts, in_flight, answers,
                   orchestrator_response>>
    /\ UNCHANGED <<graphVars, webVars>>

\* one turn of the loop over all_data: insert_navigation_metrics returns
\* True or False, and only True is counted
insert_navigation_metrics(inserted) ==
    /\ mon_pc = "store"
    /\ offered < Len(all_data)
    /\ offered' = offered + 1
    /\ stored_count' = IF inserted THEN stored_count + 1 ELSE stored_count
    /\ UNCHANGED <<mon_pc, all_data, composition_id, degradation_analysis, posts,
                   in_flight, answers, orchestrator_response, monitoring_result>>
    /\ UNCHANGED <<graphVars, webVars>>

\* {'success': True, 'degradation_detected': False, 'analysis': ...}
NoDegradationResult(analysis) ==
    [success |-> TRUE, degradation_detected |-> FALSE, analysis |-> analysis]

\* mutant: the detector is called as soon as three runs were handed to the
\* database
detect_degradation_while_storing ==
    /\ mon_pc = "store"
    /\ all_data # <<>>
    /\ offered >= Min(MinSameControllerRuns, Len(all_data))
    /\ LET analysis == DetectPerformanceDegradationRollingBaseline(all_data)
       IN  /\ degradation_analysis' = analysis
           /\ IF analysis # None /\ Get(analysis).degradation_detected
              THEN /\ mon_pc' = "degraded"
                   /\ UNCHANGED monitoring_result
              ELSE /\ mon_pc' = "returned"
                   /\ monitoring_result' = Some(NoDegradationResult(analysis))
    /\ UNCHANGED <<all_data, composition_id, offered, stored_count, posts, in_flight,
                   answers, orchestrator_response>>
    /\ UNCHANGED <<graphVars, webVars>>

\* the loop is over: the detector is called, and without degradation the
\* run returns
detect_degradation ==
    /\ mon_pc = "store"
    /\ all_data # <<>>
    /\ offered = Len(all_data)
    /\ LET analysis == DetectPerformanceDegradationRollingBaseline(all_data)
       IN  /\ degradation_analysis' = analysis
           /\ IF analysis # None /\ Get(analysis).degradation_detected
              THEN /\ mon_pc' = "degraded"
                   /\ UNCHANGED monitoring_result
              ELSE /\ mon_pc' = "returned"
                   /\ monitoring_result' = Some(NoDegradationResult(analysis))
    /\ UNCHANGED <<all_data, composition_id, offered, stored_count, posts, in_flight,
                   answers, orchestrator_response>>
    /\ UNCHANGED <<graphVars, webVars>>

\* prepare_recomposition_trigger, without the z-scores and the timestamp
PrepareRecompositionTrigger(id, analysis) ==
    [composition_id |-> CompositionIdOrUnknown(id),
     trigger_type |-> "performance_degradation",
     failure_evidence |->
        [current_task_completion_time |-> analysis.degraded_run.navigation_time,
         baseline_task_completion_time |-> analysis.baseline_metrics.navigation_time,
         current_error_count |-> analysis.degraded_run.collision_count,
         baseline_error_count |-> analysis.baseline_metrics.collision_count,
         current_intervention_count |-> analysis.degraded_run.recovery_count,
         baseline_intervention_count |-> analysis.baseline_metrics.recovery_count],
     failure_analysis |-> analysis.objective_analysis]

\* the trigger is prepared and requests.post sends it
post_recomposition_trigger ==
    /\ mon_pc = "degraded"
    /\ LET failure_trigger ==
              PrepareRecompositionTrigger(composition_id, Get(degradation_analysis))
       IN  /\ posts' = Append(posts, failure_trigger)
           /\ in_flight' = Some(failure_trigger)
    /\ mon_pc' = "posted"
    /\ UNCHANGED <<all_data, composition_id, offered, stored_count,
                   degradation_analysis, answers, orchestrator_response,
                   monitoring_result>>
    /\ UNCHANGED <<graphVars, webVars>>

\* what requests.post gave
Answered(code) == [raised |-> FALSE, status_code |-> code]
RequestException == [raised |-> TRUE, status_code |-> 0]

\* the value send_orchestrator_recomposition returns
OrchestratorResponse(answer, recomposition_data) ==
    IF answer.raised
    THEN [status |-> "failed", error |-> "RequestException", status_code |-> 0]
    ELSE IF answer.status_code = 200
    THEN [status |-> "success", recomposition |-> recomposition_data]
    ELSE [status |-> "failed", error |-> "HTTP", status_code |-> answer.status_code]

\* mutant: the run succeeds only if the orchestrator did
DegradationResultOfOrchestrator(analysis, failure_trigger, sent) ==
    [success |-> sent.status = "success",
     degradation_detected |-> TRUE,
     degradation_analysis |-> analysis,
     recomposition_trigger |-> failure_trigger,
     orchestrator_response |-> sent]

\* {'success': True, 'degradation_detected': True, ...}
DegradationResult(analysis, failure_trigger, sent) ==
    [success |-> TRUE,
     degradation_detected |-> TRUE,
     degradation_analysis |-> analysis,
     recomposition_trigger |-> failure_trigger,
     orchestrator_response |-> sent]

\* send_orchestrator_recomposition returns with the given answer, and the
\* run returns its result
SendReturns(answer) ==
    /\ answers' = Append(answers, answer)
    /\ LET sent == OrchestratorResponse(answer, last_response)
       IN  /\ orchestrator_response' = Some(sent)
           /\ monitoring_result' =
                 Some(DegradationResult(Get(degradation_analysis),
                                        posts[Len(posts)], sent))
    /\ mon_pc' = "returned"
    /\ UNCHANGED <<all_data, composition_id, offered, stored_count,
                   degradation_analysis, posts>>
    /\ UNCHANGED <<graphVars, webVars>>

\* the orchestrator has answered the request
send_orchestrator_recomposition_answered ==
    /\ mon_pc = "posted"
    /\ in_flight = None
    /\ running = EmptyStore
    /\ last_response.op = "recompose"
    /\ UNCHANGED in_flight
    /\ SendReturns(Answered(last_response.status_code))

\* requests.post raises a RequestException: the orchestrator cannot be
\* reached, or 30 seconds pass without its answer
send_orchestrator_recomposition_raised ==
    /\ mon_pc = "posted"
    /\ in_flight' = None
    /\ SendReturns(RequestException)

\* the orchestrator receives the posted trigger and does not find its
\* composition among the confirmed ones
orchestrator_answers_not_found ==
    /\ in_flight # None
    /\ recompose_composition_not_found(Get(in_flight))
    /\ in_flight' = None
    /\ UNCHANGED <<mon_pc, all_data, composition_id, offered, stored_count,
                   degradation_analysis, posts, answers, orchestrator_response,
                   monitoring_result>>

\* the orchestrator receives the posted trigger and begins to recompose
orchestrator_begins_recompose ==
    /\ in_flight # None
    /\ recompose_composition_begins(Get(in_flight))
    /\ in_flight' = None
    /\ UNCHANGED <<mon_pc, all_data, composition_id, offered, stored_count,
                   degradation_analysis, posts, answers, orchestrator_response,
                   monitoring_result>>

MonitoringNext ==
    \/ no_data_available
    \/ \E inserted \in BOOLEAN : insert_navigation_metrics(inserted)
    \/ detect_degradation
    \/ post_recomposition_trigger
    \/ send_orchestrator_recomposition_answered
    \/ send_orchestrator_recomposition_raised
    \/ orchestrator_answers_not_found
    \/ orchestrator_begins_recompose
    \/ \E r \in DOMAIN running : run_analyze_requirements(r) /\ UNCHANGED monVars
    \/ \E r \in DOMAIN running : run_decompose_tasks(r) /\ UNCHANGED monVars
    \/ \E r \in DOMAIN running : run_initiate_service_retrieval(r)
          /\ UNCHANGED monVars
    \/ \E r \in DOMAIN running : \E i \in 1..Len(running[r].run.branches) :
          run_retrieve_task_services(r, i) /\ UNCHANGED monVars
    \/ \E r \in DOMAIN running : run_build_composition(r) /\ UNCHANGED monVars
    \/ \E r \in DOMAIN running : recompose_composition_returns(r)
          /\ UNCHANGED monVars

MonitoringSpec == MonitoringInit /\ [][MonitoringNext]_vars

----------------------------------------------------------------------------
(* Claims *)

Range(s) == {s[i] : i \in 1..Len(s)}

RECURSIVE Flatten(_)
Flatten(ss) == IF ss = <<>> THEN <<>> ELSE ss[1] \o Flatten(Tail(ss))

\* what the branches returned, in task order
BranchOutputs == Flatten([i \in 1..Len(branches) |-> branches[i].out])

NoTasks == structured_tasks = None \/ Get(structured_tasks) = <<>>

ShortRun == <<"analyze_requirements", "decompose_tasks">>

FullRun(n) ==
    ShortRun \o [i \in 1..n |-> "retrieve_task_services"] \o <<"build_composition">>

BuilderStarted == pc = "build_composition" \/ "build_composition" \in Range(trace)

\* C1: the nodes run in the order analyze_requirements, decompose_tasks, one
\* retrieve_task_services per task, build_composition, END, or in the order
\* analyze_requirements, decompose_tasks, END; the builder runs only after a
\* fan-out over at least one task.
C1_StageOrder ==
    LET n == Len(branches)
    IN  /\ IF n = 0 THEN IsPrefix(trace, ShortRun) ELSE IsPrefix(trace, FullRun(n))
        /\ pc = "analyze_requirements" => trace = <<>>
        /\ pc = "decompose_tasks" => trace = <<"analyze_requirements">>
        /\ pc = "initiate_service_retrieval" => trace = ShortRun /\ n = 0
        /\ pc = "retrieve_task_services" =>
              n >= 1 /\ Len(trace) < Len(FullRun(n)) - 1 /\ Len(trace) >= 2
        /\ pc = "build_composition" => n >= 1 /\ Len(trace) = Len(FullRun(n)) - 1
        /\ pc = "END" => trace = (IF n = 0 THEN ShortRun ELSE FullRun(n))

C1_Witness ==
    /\ pc = "END"
    /\ Len(branches) = 2
    /\ trace = FullRun(2)

\* C2: after decompose_tasks the run fans out exactly when the task list is
\* neither None nor empty; otherwise it is at END with no final composition,
\* no repository query and no call made by build_composition.
C2_FanOutIffTasks ==
    LET routed == \/ pc \in {"retrieve_task_services", "build_composition", "END"}
                  \/ pc = "raised" /\ Last(trace) = "build_composition"
        fannedOut == \/ pc \in {"retrieve_task_services", "build_composition"}
                     \/ Len(branches) > 0
                     \/ "retrieve_task_services" \in Range(trace)
                     \/ "build_composition" \in Range(trace)
    IN  routed =>
          /\ fannedOut <=> ~NoTasks
          /\ NoTasks =>
                /\ pc = "END"
                /\ final_composition = None
                /\ discovery_calls = <<>>
                /\ \A k \in 1..Len(llm_calls) : llm_calls[k].node # "build_composition"
                /\ trace = ShortRun

C2_Witness ==
    /\ pc = "END"
    /\ structured_tasks = Some(<<>>)
    /\ final_composition = None

\* C3: build_composition starts only when every branch has returned, with a
\* result or with the empty list of a failed request, and the merged list
\* then holds every branch's entries.
C3_JoinBarrier ==
    BuilderStarted =>
        \A i \in 1..Len(branches) :
            /\ branches[i].status \in {"ok", "failed"}
            /\ BagOfSeq(branches[i].out) \sqsubseteq BagOfSeq(retrieved_services)

C3_Witness ==
    /\ pc = "build_composition"
    /\ Len(branches) = 2
    /\ branches[1].status = "failed"
    /\ branches[2].status = "ok"
    /\ Len(branches[2].out) = 2

\* C4: the merged list is as long as the branches' lists together; a failed
\* branch adds nothing and does not raise; the empty lists of the initial
\* state and of decompose_tasks leave the merged list as it was.
C4_MergedSize ==
    /\ Len(retrieved_services) =
          SumSeq([i \in 1..Len(branches) |-> Len(branches[i].out)])
    /\ \A i \in 1..Len(branches) :
          branches[i].status = "failed" => branches[i].out = <<>>
    /\ pc = "raised" => Last(trace) # "retrieve_task_services"

C4_Witness ==
    /\ pc = "build_composition"
    /\ Len(branches) = 2
    /\ branches[2].status = "failed"
    /\ Len(branches[1].out) = 2
    /\ Len(retrieved_services) = 2

\* C5: the merged list holds, as a multiset, exactly the entries the
\* branches returned, each as often as it was returned, whatever the order
\* in which the branches returned.
C5_MultisetUnion ==
    BagOfSeq(retrieved_services) = BagOfSeq(BranchOutputs)

\* the second task's branch returned before the first task's
C5_Witness ==
    /\ pc = "build_composition"
    /\ Len(branches) = 2
    /\ Len(retrieved_services) = 3
    /\ retrieved_services[1].task_id = 2
    /\ retrieved_services[3].task_id = 1

\* C6: a task list that is not None numbers its tasks 1..N in the order the
\* extraction call listed them, and no task of the answer carried an
\* identifier of its own.
C6_DenseTaskIds ==
    ~(structured_tasks = None) =>
        LET tasks == Get(structured_tasks)
            answer == llm_calls[4].response.tasks
        IN  /\ llm_calls[4].node = "decompose_tasks"
            /\ llm_calls[4].call = "structured"
            /\ Len(tasks) = Len(answer)
            /\ \A k \in 1..Len(tasks) :
                  /\ tasks[k].task_id = k
                  /\ tasks[k].name = answer[k].name
                  /\ tasks[k].description = answer[k].description
                  /\ "task_id" \notin answer[k].extra

C6_Witness ==
    /\ ~(structured_tasks = None)
    /\ Len(Get(structured_tasks)) = 2
    /\ Get(structured_tasks)[1].name = "Classify"
    /\ Get(structured_tasks)[2].name = "Transcribe"

\* C7: graph.ainvoke raises only when the first call of the run, the
\* reasoning call of analyze_requirements, failed; every other failed call
\* is recovered by its node.
C7_OnlyFirstCallPropagates ==
    pc = "raised" =>
        /\ Last(llm_calls).node = "analyze_requirements"
        /\ Last(llm_calls).call = "cot"

\* C8: when the run is at END, reasoning_steps holds a note of every node
\* among analyze_requirements, decompose_tasks and build_composition that ran.
C8_AuditKeepsEveryStage ==
    pc = "END" =>
        \A node \in Range(trace) \ {"retrieve_task_services"} :
            \E k \in 1..Len(reasoning_steps) : NoteNode(reasoning_steps[k]) = node

C10_AnalyzerFallback ==
    (/\ Len(llm_calls) >= 2
     /\ llm_calls[2].node = "analyze_requirements"
     /\ llm_calls[2].call = "structured"
     /\ \/ llm_calls[2].response.raised
        \/ Get(llm_calls[2].response.value).confidence_score \notin 1..10)
    =>
        /\ ~llm_calls[1].response.raised
        /\ requirement_cot = Some(llm_calls[1].response.content)
        /\ analyzed_requirements = None
        /\ pc = "decompose_tasks" \/ "decompose_tasks" \in Range(trace)
        /\ pc = "decompose_tasks" => reasoning_steps = <<NoteAnalysisFailed>>
        /\ pc # "raised"

C10_Witness ==
    /\ pc = "decompose_tasks"
    /\ Len(llm_calls) = 2
    /\ ~llm_calls[2].response.raised
    /\ Get(llm_calls[2].response.value).confidence_score = 11
    /\ analyzed_requirements = None
    /\ reasoning_steps = <<NoteAnalysisFailed>>

\* the calls a node made, in order
CallsBy(node) ==
    LET ByNode(c) == c.node = node
    IN  SelectSeq(llm_calls, ByNode)

\* C11: when decompose_tasks has run without a structured analysis, it made
\* no call and wrote no task list, no breakdown text, nothing to the merged
\* list and the note about missing structured requirements; the run then
\* ends at END without a final composition and with that note as its log.
C11_DecomposerFailsFast ==
    (analyzed_requirements = None /\ "decompose_tasks" \in Range(trace)) =>
        /\ CallsBy("decompose_tasks") = <<>>
        /\ structured_tasks = None
        /\ task_breakdown = None
        /\ retrieved_services = <<>>
        /\ task_service_candidates = None
        /\ reasoning_steps = <<NoteNoRequirements>>
        /\ pc \in {"initiate_service_retrieval", "END"}
        /\ final_composition = None
        /\ trace = ShortRun

C11_Witness ==
    /\ pc = "END"
    /\ analyzed_requirements = None
    /\ trace = ShortRun
    /\ reasoning_steps = <<NoteNoRequirements>>

\* whether the task extraction call, the fourth call of a run, failed: it
\* raised, or a task of its answer carries a field the schema forbids
TaskExtractionFailed ==
    /\ Len(llm_calls) >= 4
    /\ llm_calls[4].node = "decompose_tasks"
    /\ llm_calls[4].call = "structured"
    /\ \/ llm_calls[4].response.raised
       \/ \E k \in 1..Len(llm_calls[4].response.tasks) :
             llm_calls[4].response.tasks[k].extra # {}

\* C12: when the breakdown call of decompose_tasks returns and its
\* extraction call fails, the breakdown text is kept, the task list is None,
\* the note of the failed extraction is written, and the run goes to END
\* without a final composition and without raising.
C12_TaskExtractionFallback ==
    TaskExtractionFailed =>
        /\ ~llm_calls[3].response.raised
        /\ task_breakdown = Some(llm_calls[3].response.content)
        /\ structured_tasks = None
        /\ reasoning_steps = <<NoteTasksFailed>>
        /\ pc \in {"initiate_service_retrieval", "END"}
        /\ final_composition = None
        /\ trace = ShortRun

C12_Witness ==
    /\ pc = "END"
    /\ TaskExtractionFailed
    /\ llm_calls[4].response.raised
    /\ task_breakdown = Some("task breakdown")

\* the entries of the merged list that carry the id of task t
EntriesOfTask(t) ==
    LET OfTask(e) == e.task_id = t
    IN  SelectSeq(retrieved_services, OfTask)

AllBranchesReturned == \A i \in 1..Len(branches) : branches[i].status # "pending"

SomeBranchFailed == \E i \in 1..Len(branches) : branches[i].status = "failed"

\* C13: a failed retrieval leaves no entry for its own task and touches
\* nothing else: every other branch's entries are in the merged list as
\* returned, a branch still pending stays ready to run, and once all
\* branches have returned the run is at build_composition or beyond.
C13_RetrievalFailureIsLocal ==
    /\ \A i \in 1..Len(branches) :
          /\ branches[i].status = "failed" => EntriesOfTask(i) = <<>>
          /\ branches[i].status = "ok" => EntriesOfTask(i) = branches[i].out
          /\ branches[i].status = "pending" =>
                pc = "retrieve_task_services" /\ EntriesOfTask(i) = <<>>
    /\ (SomeBranchFailed /\ AllBranchesReturned) =>
          \/ pc \in {"build_composition", "END"}
          \/ pc = "raised" /\ Last(trace) = "build_composition"

C13_Witness ==
    /\ pc = "END"
    /\ Len(branches) = 2
    /\ branches[2].status = "failed"
    /\ branches[1].status = "ok"
    /\ Len(EntriesOfTask(1)) = 2
    /\ ~(final_composition = None)

\* the queries posted for task t
QueriesOfTask(t) ==
    LET OfTask(q) == q.task_id = t
    IN  SelectSeq(discovery_calls, OfTask)

\* C14: a fan-out over N tasks creates N branches, the i-th for the i-th
\* task; a branch that has returned has posted one query with k = 3, a
\* pending branch none, and no other query is ever posted.
C14_OneBranchOneQuery ==
    (Len(branches) > 0 \/ pc \in {"retrieve_task_services", "build_composition"}) =>
        /\ ~(structured_tasks = None)
        /\ Len(branches) = Len(Get(structured_tasks))
        /\ \A i \in 1..Len(branches) :
              /\ branches[i].task = Get(structured_tasks)[i]
              /\ Len(QueriesOfTask(i)) =
                    IF branches[i].status = "pending" THEN 0 ELSE 1
        /\ \A q \in 1..Len(discovery_calls) :
              /\ discovery_calls[q].k = 3
              /\ discovery_calls[q].task_id \in 1..Len(branches)

C14_Witness ==
    /\ pc = "build_composition"
    /\ Len(branches) = 2
    /\ branches[1].status = "failed"
    /\ branches[2].status = "failed"
    /\ Len(discovery_calls) = 2

BuilderRan == "build_composition" \in Range(trace)

\* C15: when build_composition has run with a task list that is None or
\* empty, or with an empty merged list, it made no call and wrote no final
\* composition and the note about missing tasks or services.
C15_BuilderFailsFast ==
    (BuilderRan /\ (NoTasks \/ retrieved_services = <<>>)) =>
        /\ CallsBy("build_composition") = <<>>
        /\ final_composition = None
        /\ reasoning_steps = <<NoteBuildMissing>>
        /\ pc = "END"

C15_Witness ==
    /\ pc = "END"
    /\ BuilderRan
    /\ Len(branches) = 2
    /\ branches[1].status = "failed"
    /\ branches[2].status = "failed"
    /\ retrieved_services = <<>>

\* C16: when build_composition has run with a non-empty task list and a
\* non-empty merged list, it made exactly two calls, the analysis call and
\* then the extraction call, whatever either call answered.
C16_BuilderMakesTwoCalls ==
    (BuilderRan /\ ~NoTasks /\ retrieved_services # <<>>) =>
        LET calls == CallsBy("build_composition")
        IN  /\ Len(calls) = 2
            /\ calls[1].call = "cot"
            /\ calls[2].call = "structured"

\* C17: when the analysis call of build_composition returned and its
\* extraction call failed, the analysis text is, at the end of the run, the
\* value of a text field of the state or an entry of reasoning_steps.
C17_AnalysisTextRetained ==
    (/\ pc = "END"
     /\ Len(llm_calls) = 6
     /\ llm_calls[6].node = "build_composition"
     /\ \/ llm_calls[6].response.raised
        \/ Get(llm_calls[6].response.value).extra # {})
    =>
        LET text == llm_calls[5].response.content
        IN  \/ requirement_cot = Some(text)
            \/ task_breakdown = Some(text)
            \/ text \in Range(reasoning_steps)

\* whether the extraction call of build_composition, the sixth call of a
\* run, failed: it raised, or its answer carries a field the schema forbids
BlueprintExtractionFailed ==
    /\ Len(llm_calls) = 6
    /\ llm_calls[6].node = "build_composition"
    /\ llm_calls[6].call = "structured"
    /\ \/ llm_calls[6].response.raised
       \/ Get(llm_calls[6].response.value).extra # {}

\* C18: when the extraction call of build_composition fails, the node
\* writes no final composition and the note of the failed generation, and
\* the graph ends at END with every field of the state in place: it does
\* not raise.
C18_BlueprintExtractionFallback ==
    BlueprintExtractionFailed =>
        /\ final_composition = None
        /\ reasoning_steps = <<NoteBuildFailed>>
        /\ pc = "END"
        /\ response # "raised"
        /\ ~(structured_tasks = None)
        /\ retrieved_services # <<>>
        /\ ~(requirement_cot = None) /\ ~(task_breakdown = None)
        /\ ~(analyzed_requirements = None)

C18_Witness ==
    /\ pc = "END"
    /\ BlueprintExtractionFailed
    /\ llm_calls[6].response.raised
    /\ final_composition = None

\* C19: a final composition that is not None holds at least one
\* alternative, in the state of the run and in what compose_with_langgraph
\* returns.
C19_SuccessHasAlternative ==
    ~(final_composition = None) =>
        Len(Get(final_composition).alternatives) >= 1

\* a dependency list is the sentinel alone or names only earlier steps
DependenciesWellFormed(blueprint, k) ==
    LET dep == blueprint.tasks[k].dep
    IN  \/ dep = <<-1>>
        \/ \A d \in 1..Len(dep) :
              \E j \in 1..(k - 1) : blueprint.tasks[j].id = dep[d]

\* C20: every blueprint of a final composition has, in each step, a
\* dependency list that is [-1] alone or names only steps listed before it.
C20_DependenciesAccepted ==
    ~(final_composition = None) =>
        \A a \in 1..Len(Get(final_composition).alternatives) :
            \A k \in 1..Len(Get(final_composition).alternatives[a].tasks) :
                DependenciesWellFormed(Get(final_composition).alternatives[a], k)

\* whether the structured call of analyze_requirements, the second call of a
\* run, answered with a confidence score outside 1..10
ConfidenceOutOfRange ==
    /\ Len(llm_calls) >= 2
    /\ llm_calls[2].node = "analyze_requirements"
    /\ llm_calls[2].call = "structured"
    /\ ~llm_calls[2].response.raised
    /\ \/ Get(llm_calls[2].response.value).confidence_score < 1
       \/ Get(llm_calls[2].response.value).confidence_score > 10

\* C25: the structured analysis of the state is None or has a confidence
\* score from 1 to 10; an answer with a score outside 1..10 leaves the
\* analysis None with the note of the failed parsing, and the run neither
\* raises then nor later.
C25_ConfidenceInRange ==
    /\ \/ analyzed_requirements = None
       \/ /\ Get(analyzed_requirements).confidence_score >= 1
          /\ Get(analyzed_requirements).confidence_score <= 10
    /\ ConfidenceOutOfRange =>
          /\ analyzed_requirements = None
          /\ pc # "raised"
          /\ response # "raised"
          /\ NoteAnalysisFailed \in Range(reasoning_steps) \/ Len(trace) > 1

C25_Witness ==
    /\ pc = "END"
    /\ ConfidenceOutOfRange
    /\ Get(llm_calls[2].response.value).confidence_score = 0
    /\ analyzed_requirements = None
    /\ response = "HTTPException"

\* whether entry e repeats the identifier, the name and the query of task t
CarriesTask(e, t) ==
    /\ e.task_id = t.task_id
    /\ e.task_name = t.name
    /\ e.query = <<t.description>> \o t.ml_keywords

\* C26: every entry of the merged list carries the identifier of a task of
\* the task list together with that task's name and query, and every entry
\* a branch returned carries the identifier, name and query of the branch's
\* own task, in whatever order the branches return.
C26_EntriesCarryTheirTask ==
    /\ \A k \in 1..Len(retrieved_services) :
          /\ ~(structured_tasks = None)
          /\ retrieved_services[k].task_id \in 1..Len(Get(structured_tasks))
          /\ CarriesTask(retrieved_services[k],
                         Get(structured_tasks)[retrieved_services[k].task_id])
    /\ \A i \in 1..Len(branches) :
          \A k \in 1..Len(branches[i].out) :
              /\ branches[i].out[k].task_id = i
              /\ CarriesTask(branches[i].out[k], Get(structured_tasks)[i])

\* both branches found two services, the second task's branch first
C26_Witness ==
    /\ pc = "build_composition"
    /\ Len(branches) = 2
    /\ Get(structured_tasks)[1].name = "Transcribe"
    /\ Get(structured_tasks)[2].name = "Classify"
    /\ Len(retrieved_services) = 4
    /\ retrieved_services[1].task_id = 2
    /\ retrieved_services[1].task_name = "Classify"
    /\ retrieved_services[4].task_id = 1

\* why a run ended without a final composition, told from what the stages
\* did: no task to work on, no service found by any branch, or a blueprint
\* extraction that failed
CauseOfNoComposition ==
    IF structured_tasks = None \/ Get(structured_tasks) = <<>>
    THEN "no tasks"
    ELSE IF \A i \in 1..Len(branches) : branches[i].out = <<>>
         THEN "no services"
         ELSE "synthesis failed"

\* what a reader of the audit log alone takes the cause to be
CauseReadFromLog(log) ==
    IF NoteBuildFailed \in Range(log) THEN "synthesis failed"
    ELSE IF NoteBuildMissing \in Range(log) THEN "no services"
    ELSE IF Range(log) \cap {NoteNoRequirements, NoteTasksFailed, NoteTasksOk} # {}
         THEN "no tasks"
         ELSE "unknown"

\* C27: when the graph ends at END without a final composition, the cause
\* read from reasoning_steps alone is the cause the run had, so runs that
\* ended for different causes never return the same log.
C27_AuditTellsCause ==
    (pc = "END" /\ final_composition = None) =>
        /\ reasoning_steps # <<>>
        /\ CauseReadFromLog(reasoning_steps) = CauseOfNoComposition

\* one branch failed, the other found services, the extraction call failed
C27_Witness ==
    /\ pc = "END"
    /\ final_composition = None
    /\ Len(branches) = 2
    /\ branches[1].out = <<>>
    /\ branches[2].out # <<>>
    /\ CauseReadFromLog(reasoning_steps) = "synthesis failed"

\* C28: from the return of decompose_tasks to the start of build_composition
\* no step changes requirements, constraints, the structured analysis, the
\* reasoning text, the task list, the breakdown text, the candidates, the
\* final composition or reasoning_steps (a branch writes retrieved_services
\* only), and the step of build_composition leaves the task list and the
\* merged list as they are.
C28_FrameOfRetrievalAndBuilder ==
    [][/\ pc \in {"initiate_service_retrieval", "retrieve_task_services"} =>
             UNCHANGED <<requirements, constraints, analyzed_requirements,
                         requirement_cot, structured_tasks, task_breakdown,
                         task_service_candidates, final_composition, reasoning_steps>>
       /\ pc = "build_composition" =>
             UNCHANGED <<structured_tasks, retrieved_services>>]_vars

\* a run whose two branches both wrote to the merged list and whose builder
\* wrote a final composition
C28_Witness ==
    /\ pc = "END"
    /\ Len(branches) = 2
    /\ branches[1].out # <<>>
    /\ branches[2].out # <<>>
    /\ retrieved_services # <<>>
    /\ ~(final_composition = None)
    /\ reasoning_steps = <<NoteBuildOk>>

\* how often a node has run
RunsOf(node) ==
    LET IsNode(n) == n = node
    IN  Len(SelectSeq(trace, IsNode))

\* C29: in a run that fanned out over N >= 1 tasks build_composition runs at
\* most once, not before every one of the N branches has run, and it has run
\* exactly once when the graph is at END, however many branches there are
\* and in whatever order they returned.
C29_BuilderRunsOnce ==
    Len(branches) >= 1 =>
        /\ RunsOf("build_composition") <= 1
        /\ RunsOf("build_composition") = 1 =>
              /\ RunsOf("retrieve_task_services") = Len(branches)
              /\ \A i \in 1..Len(branches) : branches[i].status # "pending"
              /\ Last(trace) = "build_composition"
        /\ pc = "build_composition" =>
              /\ RunsOf("build_composition") = 0
              /\ RunsOf("retrieve_task_services") = Len(branches)
        /\ pc = "END" => RunsOf("build_composition") = 1

\* two branches, the second returned first, and the builder has run
C29_Witness ==
    /\ pc = "END"
    /\ Len(branches) = 2
    /\ RunsOf("build_composition") = 1
    /\ RunsOf("retrieve_task_services") = 2
    /\ branches[1].out # <<>>
    /\ branches[2].out # <<>>
    /\ retrieved_services[1].task_id = 2

----------------------------------------------------------------------------
(* Claims about the web layer, checked under WebSpec *)

\* the requests that begin in this step
Begun == DOMAIN running' \ DOMAIN running

\* the step sends a response
Responds(op, code) ==
    /\ last_response' # last_response
    /\ last_response'.op = op
    /\ last_response'.status_code = code

\* C21: a recompose whose trigger names a composition outside
\* confirmed_compositions, unknown or composed but not confirmed, is answered
\* 404 in a step that starts no run, draws no identifier and leaves both
\* stores as they are; a run of recompose begins only for a confirmed
\* composition, and a 500 of recompose is never the answer to an
\* unconfirmed one.
C21_RecomposeNeedsConfirmed ==
    [][/\ \A r \in Begun :
             running'[r].op = "recompose" =>
                 running'[r].trigger.composition_id \in DOMAIN confirmed_compositions
       /\ Responds("recompose", 404) =>
             /\ last_response'.composition_id \notin DOMAIN confirmed_compositions
             /\ UNCHANGED <<compositions, confirmed_compositions, running, uuids>>
       /\ Responds("recompose", 500) =>
             last_response'.composition_id \in DOMAIN confirmed_compositions]_vars

\* the trigger named a composition that is stored but was not confirmed
C21_Witness ==
    /\ last_response.op = "recompose"
    /\ last_response.status_code = 404
    /\ last_response.composition_id \in DOMAIN compositions
    /\ last_response.composition_id \notin DOMAIN confirmed_compositions

\* the identifiers whose confirmed record is new or changed in this step
Confirmed ==
    {id \in DOMAIN confirmed_compositions' :
        \/ id \notin DOMAIN confirmed_compositions
        \/ confirmed_compositions'[id] # confirmed_compositions[id]}

\* C22: a confirm for an identifier outside the compositions store is
\* answered 404 in a step that leaves both stores as they are; a confirmed
\* record is written only for an identifier in the compositions store, by a
\* confirm answered 200.
C22_ConfirmNeedsComposition ==
    [][/\ Responds("confirm", 404) =>
             /\ last_response'.composition_id \notin DOMAIN compositions
             /\ UNCHANGED <<compositions, confirmed_compositions>>
       /\ Responds("confirm", 200) =>
             last_response'.composition_id \in DOMAIN compositions
       /\ \A id \in Confirmed :
             /\ id \in DOMAIN compositions
             /\ last_response' = [op |-> "confirm", composition_id |-> id,
                                  status_code |-> 200, status |-> "confirmed"]
       /\ DOMAIN confirmed_compositions' \subseteq DOMAIN compositions']_vars

\* the identifier was handed out to a compose that failed, another
\* composition is stored, and the confirm was answered 404
C22_Witness ==
    /\ last_response.op = "confirm"
    /\ last_response.status_code = 404
    /\ last_response.composition_id <= uuids
    /\ last_response.composition_id \notin DOMAIN running
    /\ last_response.composition_id \notin DOMAIN compositions
    /\ compositions # EmptyStore
    /\ confirmed_compositions = EmptyStore

\* C23: a status request is answered "deployed" for an identifier with a
\* confirmed record, "created" for one in the compositions store without a
\* confirmed record, and 404 for one in neither store; no step of compose,
\* confirm, recompose or their runs removes a confirmed record, changes its
\* status or removes its composition, so an identifier once reported
\* "deployed" is never reported "created" again.
C23_StatusLifecycle ==
    [][/\ (last_response'.op = "status") =>
             LET id == last_response'.composition_id
             IN  /\ id \in DOMAIN confirmed_compositions' =>
                       /\ last_response'.status_code = 200
                       /\ last_response'.status = "deployed"
                 /\ (id \in DOMAIN compositions'
                        /\ id \notin DOMAIN confirmed_compositions') =>
                       /\ last_response'.status_code = 200
                       /\ last_response'.status = "created"
                 /\ (id \notin DOMAIN compositions'
                        /\ id \notin DOMAIN confirmed_compositions') =>
                       last_response'.status_code = 404
       /\ \A id \in DOMAIN confirmed_compositions :
             /\ id \in DOMAIN confirmed_compositions'
             /\ confirmed_compositions'[id].status = "deployed"
             /\ id \in DOMAIN compositions'
       /\ Responds("confirm", 200) =>
             /\ last_response'.composition_id \in DOMAIN confirmed_compositions'
             /\ confirmed_compositions'[last_response'.composition_id].status
                   = "deployed"]_vars

\* the status of a confirmed composition, asked after a recomposition of it
\* was stored
C23_Witness ==
    /\ last_response = [op |-> "status", composition_id |-> 1,
                        status_code |-> 200, status |-> "deployed"]
    /\ 2 \in DOMAIN compositions
    /\ compositions[2].status = "recomposed"
    /\ compositions[2].original_composition_id = 1

\* the state a run starts from: its two inputs and nothing else
FreshRun(reqs, cons) ==
    [pc |-> "analyze_requirements",
     requirements |-> reqs,
     constraints |-> cons,
     analyzed_requirements |-> <<>>,
     requirement_cot |-> <<>>,
     structured_tasks |-> <<>>,
     task_breakdown |-> <<>>,
     retrieved_services |-> <<>>,
     task_service_candidates |-> <<>>,
     final_composition |-> <<>>,
     reasoning_steps |-> <<>>,
     branches |-> <<>>,
     llm_calls |-> <<>>,
     trace |-> <<>>]

\* the nodes of run s ran in the order of the graph
InStageOrder(s) ==
    IF Len(s.branches) = 0
    THEN IsPrefix(s.trace, ShortRun)
    ELSE IsPrefix(s.trace, FullRun(Len(s.branches)))

\* C24: a run begun by recompose starts, like a run begun by compose, from
\* the state that holds its two inputs and nothing else; its requirements
\* are the text built from the confirmed record's original requirements and
\* the trigger, its constraints the confirmed record's deployment context;
\* the inputs of a run never change, and the nodes of every run, of either
\* kind, run in the order of the one graph.
C24_RecomposeIsAFreshRun ==
    [][/\ \A r \in Begun :
             /\ running'[r].run =
                   FreshRun(running'[r].run.requirements, running'[r].run.constraints)
             /\ running'[r].op = "recompose" =>
                   LET id == running'[r].trigger.composition_id
                   IN  /\ running'[r].run.requirements =
                             <<"Original Requirements:">>
                                \o confirmed_compositions[id].original_requirements
                                \o <<"Previous Implementation Issues:",
                                     running'[r].trigger.trigger_type,
                                     running'[r].trigger.failure_analysis,
                                     running'[r].trigger.failure_evidence,
                                     "Requirements for Improved Solution:">>
                       /\ running'[r].run.constraints =
                             confirmed_compositions[id].deployment_context
       /\ \A r \in DOMAIN running \cap DOMAIN running' :
             /\ running'[r].run.requirements = running[r].run.requirements
             /\ running'[r].run.constraints = running[r].run.constraints
             /\ running'[r].op = running[r].op
       /\ \A r \in DOMAIN running' : InStageOrder(running'[r].run)]_vars

\* a run begun by recompose went through all four stages
C24_Witness ==
    \E r \in DOMAIN running :
        /\ running[r].op = "recompose"
        /\ running[r].run.pc = "END"
        /\ running[r].run.trace = FullRun(1)
        /\ running[r].run.requirements[1] = "Original Requirements:"
        /\ running[r].run.constraints = "{region: eu}"
        /\ ~(running[r].run.final_composition = None)

\* what the branches of run s returned, in task order
RunBranchOutputs(s) == Flatten([i \in 1..Len(s.branches) |-> s.branches[i].out])

\* the state of run s holds only what the calls and branches of run s gave
OwnStateOnly(s) ==
    /\ BagOfSeq(s.retrieved_services) = BagOfSeq(RunBranchOutputs(s))
    /\ \A k \in 1..Len(s.retrieved_services) :
          /\ ~(s.structured_tasks = None)
          /\ s.retrieved_services[k].task_id \in 1..Len(Get(s.structured_tasks))
          /\ CarriesTask(s.retrieved_services[k],
                         Get(s.structured_tasks)[s.retrieved_services[k].task_id])
    /\ ~(s.analyzed_requirements = None) =>
          s.analyzed_requirements = s.llm_calls[2].response.value
    /\ ~(s.structured_tasks = None) =>
          /\ Len(Get(s.structured_tasks)) = Len(s.llm_calls[4].response.tasks)
          /\ \A k \in 1..Len(Get(s.structured_tasks)) :
                /\ Get(s.structured_tasks)[k].name =
                      s.llm_calls[4].response.tasks[k].name
                /\ Get(s.structured_tasks)[k].description =
                      s.llm_calls[4].response.tasks[k].description
    /\ \A i \in 1..Len(s.branches) : s.branches[i].task = Get(s.structured_tasks)[i]
    /\ ~(s.final_composition = None) =>
          Get(s.final_composition).alternatives =
              Get(s.llm_calls[6].response.value).alternatives

\* C30: of the runs in progress at the same time, each holds in its merged
\* list exactly the entries its own branches returned, tagged with its own
\* tasks, and its analysis, its tasks and its final composition are those
\* its own calls answered, however the steps of the runs interleave.
C30_RunsAreIsolated ==
    \A r \in DOMAIN running : OwnStateOnly(running[r].run)

\* two runs in progress with different tasks; both have retrieved services,
\* one has built its composition while the other has not
C30_Witness ==
    /\ DOMAIN running = {1, 2}
    /\ running[1].run.pc = "build_composition"
    /\ running[2].run.pc = "END"
    /\ Len(running[1].run.branches) = 1
    /\ Len(running[2].run.branches) = 1
    /\ running[1].run.branches[1].task.name = "Transcribe"
    /\ running[2].run.branches[1].task.name = "Classify"
    /\ Len(running[1].run.retrieved_services) = 1
    /\ Len(running[2].run.retrieved_services) = 1
    /\ ~(running[2].run.final_composition = None)

\* the requests whose handler returns in this step
Returned == DOMAIN running \ DOMAIN running'

\* C31: every record of the compositions store holds a blueprint set, never
\* None; a compose whose run raised or ended without a final composition is
\* answered 500 and leaves the store without a record under its identifier,
\* and a compose answered 200 has stored the final composition of its run.
C31_StoredCompositionsHaveBlueprints ==
    [][/\ \A id \in DOMAIN compositions' :
             "alternatives" \in DOMAIN compositions'[id].blueprints
       /\ \A r \in Returned :
             (running[r].op = "compose"
                 /\ (running[r].run.pc = "raised"
                        \/ running[r].run.final_composition = <<>>)) =>
                 /\ last_response' = [op |-> "compose", composition_id |-> r,
                                      status_code |-> 500, status |-> ""]
                 /\ UNCHANGED <<compositions, confirmed_compositions>>
                 /\ r \notin DOMAIN compositions'
       /\ Responds("compose", 200) =>
             LET r == last_response'.composition_id
             IN  /\ r \in Returned
                 /\ r \in DOMAIN compositions'
                 /\ <<compositions'[r].blueprints>> = running[r].run.final_composition]_vars

\* one compose stored its composition, the other was answered 500
C31_Witness ==
    /\ last_response = [op |-> "compose", composition_id |-> 2,
                        status_code |-> 500, status |-> ""]
    /\ DOMAIN compositions = {1}
    /\ running = EmptyStore
    /\ uuids = 2

\* C32: every identifier of the confirmed store is an identifier of the
\* compositions store, and the original composition its record embeds is
\* the record stored under that identifier; no step removes a record from
\* either store or changes a stored composition.
C32_ConfirmedRefersToStored ==
    [][/\ \A id \in DOMAIN confirmed_compositions' :
             /\ id \in DOMAIN compositions'
             /\ confirmed_compositions'[id].composition_id = id
             /\ confirmed_compositions'[id].original_composition = compositions'[id]
       /\ \A id \in DOMAIN compositions :
             /\ id \in DOMAIN compositions'
             /\ compositions'[id] = compositions[id]
       /\ \A id \in DOMAIN confirmed_compositions :
             id \in DOMAIN confirmed_compositions']_vars

\* a composition and its recomposition are stored and both are confirmed
C32_Witness ==
    /\ DOMAIN compositions = {1, 2}
    /\ DOMAIN confirmed_compositions = {1, 2}
    /\ compositions[2].status = "recomposed"
    /\ confirmed_compositions[2].original_composition.original_composition_id = 1

\* C33: the step in which recompose answers 200 adds one record to the
\* compositions store, under an identifier no record had, with status
\* "recomposed" and the trigger's identifier as its original; every other
\* composition and the confirmed store stay as they are, and the new
\* identifier has no confirmed record.  A recomposed identifier gets a
\* confirmed record only in a step of confirm answered 200 for it, and a run
\* of recompose begins only for an identifier with a confirmed record.
C33_RecomposeAddsOneComposition ==
    [][/\ Responds("recompose", 200) =>
             LET new == last_response'.composition_id
             IN  /\ new \in Returned
                 /\ new \notin DOMAIN compositions
                 /\ DOMAIN compositions' = DOMAIN compositions \cup {new}
                 /\ \A id \in DOMAIN compositions : compositions'[id] = compositions[id]
                 /\ compositions'[new].composition_id = new
                 /\ compositions'[new].status = "recomposed"
                 /\ compositions'[new].original_composition_id =
                       running[new].trigger.composition_id
                 /\ compositions'[new].original_composition_id # new
                 /\ compositions'[new].original_composition_id
                       \in DOMAIN confirmed_compositions
                 /\ UNCHANGED confirmed_compositions
                 /\ new \notin DOMAIN confirmed_compositions'
       /\ \A id \in DOMAIN confirmed_compositions' \ DOMAIN confirmed_compositions :
             last_response' = [op |-> "confirm", composition_id |-> id,
                               status_code |-> 200, status |-> "confirmed"]
       /\ \A r \in Begun :
             running'[r].op = "recompose" =>
                 running'[r].trigger.composition_id \in DOMAIN confirmed_compositions
       /\ (Responds("recompose", 404)
              /\ last_response'.composition_id \in DOMAIN compositions) =>
             last_response'.composition_id \notin DOMAIN confirmed_compositions]_vars

\* a trigger naming the new, unconfirmed composition was answered 404
C33_Witness ==
    /\ last_response = [op |-> "recompose", composition_id |-> 2,
                        status_code |-> 404, status |-> ""]
    /\ DOMAIN compositions = {1, 2}
    /\ compositions[2].status = "recomposed"
    /\ compositions[2].original_composition_id = 1
    /\ compositions[1].status = "success"
    /\ DOMAIN confirmed_compositions = {1}

\* C34: a recompose whose run raised or ended without a final composition
\* is answered 500 in a step that leaves both stores as they are and the
\* compositions store without a record under the identifier drawn for it;
\* the steps in which a request begins and the steps of its run write
\* neither store, and no record is ever stored under the identifier of a
\* request still being served.
C34_FailedRecomposeStoresNothing ==
    [][/\ \A r \in Returned :
             (running[r].op = "recompose"
                 /\ (running[r].run.pc = "raised"
                        \/ running[r].run.final_composition = <<>>)) =>
                 /\ last_response' =
                       [op |-> "recompose",
                        composition_id |-> running[r].trigger.composition_id,
                        status_code |-> 500, status |-> ""]
                 /\ UNCHANGED <<compositions, confirmed_compositions>>
                 /\ r \notin DOMAIN compositions'
       /\ Begun # {} => UNCHANGED <<compositions, confirmed_compositions>>
       /\ (\E r \in DOMAIN running \cap DOMAIN running' :
              running'[r].run # running[r].run) =>
             UNCHANGED <<compositions, confirmed_compositions>>
       /\ \A r \in DOMAIN running' : r \notin DOMAIN compositions'
       /\ \A id \in DOMAIN compositions' \ DOMAIN compositions :
             /\ id \in Returned
             /\ ~(running[id].run.final_composition = <<>>)]_vars

\* the run of a recompose failed: the stores hold the original composition
\* and its confirmed record and nothing under the second identifier
C34_Witness ==
    /\ last_response = [op |-> "recompose", composition_id |-> 1,
                        status_code |-> 500, status |-> ""]
    /\ DOMAIN compositions = {1}
    /\ DOMAIN confirmed_compositions = {1}
    /\ uuids = 2
    /\ running = EmptyStore

----------------------------------------------------------------------------
(* Claims about the monitoring service *)

\* the positions of the runs of the first run's controller type
SameAsFirst ==
    {i \in 1..Len(all_data) :
        all_data[i].controller_type = all_data[1].controller_type}

\* those of them with fewer than two earlier runs of that type
EarliestTwo ==
    {i \in SameAsFirst :
        Cardinality({j \in SameAsFirst :
                        all_data[j].timestamp < all_data[i].timestamp}) < 2}

LaterRuns == SameAsFirst \ EarliestTwo

\* the values of metric f in the two earliest runs
EarliestTwoValues(f) ==
    LET first == CHOOSE i \in EarliestTwo :
                    \A j \in EarliestTwo : all_data[i].timestamp <= all_data[j].timestamp
        second == CHOOSE i \in EarliestTwo : i # first
    IN  <<all_data[first][f], all_data[second][f]>>

\* twice the distance of x from the mean of a and b
TwiceAbove(x, a, b) == 2 * x - a - b

\* x lies more than two deviations from the mean of a and b, where the
\* deviation is |a - b| / sqrt(2), at least 0.1, and 1 for a count that is
\* 0 in both: in squares, d^2 > 8 (a - b)^2 and d^2 > 0.4^2, or d^2 > 4^2
BeyondTwoSigma(x, a, b, is_count) ==
    LET d == TwiceAbove(x, a, b)
    IN  IF is_count /\ a = 0 /\ b = 0
        THEN d * d > 16
        ELSE d * d > 8 * (a - b) * (a - b) /\ 25 * d * d > 4

AboveBaselineMean(i, f) ==
    LET base == EarliestTwoValues(f)
    IN  TwiceAbove(all_data[i][f], base[1], base[2]) > 0

Outlier(i) ==
    \E f \in {"navigation_time", "collision_count", "recovery_count"} :
        LET base == EarliestTwoValues(f)
        IN  /\ AboveBaselineMean(i, f)
            /\ BeyondTwoSigma(all_data[i][f], base[1], base[2],
                              f # "navigation_time")

\* C38: the detector returns no result exactly when fewer than three runs
\* have the controller type of the first run; otherwise its baseline is the
\* two earliest runs of that type, it reports degradation exactly when a
\* later run of that type has a metric above the baseline mean and more
\* than two deviations from it, and the run it reports is the earliest such
\* run: never one of the baseline, never one of another type, never one
\* whose metrics are all at or below the baseline means.
C38_DetectorReportsEarliestOutlier ==
    mon_pc = "detector_returned" =>
        /\ degradation_analysis = None <=> Cardinality(SameAsFirst) < 3
        /\ degradation_analysis # None =>
              LET result == Get(degradation_analysis)
              IN  /\ \A f \in {"navigation_time", "collision_count", "recovery_count"} :
                        /\ result.baseline_metrics[f].n = 2
                        /\ result.baseline_metrics[f].sum =
                              EarliestTwoValues(f)[1] + EarliestTwoValues(f)[2]
                  /\ result.degradation_detected <=> \E i \in LaterRuns : Outlier(i)
                  /\ result.degradation_detected =>
                        \E i \in LaterRuns :
                            /\ result.degraded_run = all_data[i]
                            /\ Outlier(i)
                            /\ \A j \in LaterRuns :
                                  Outlier(j) =>
                                      all_data[i].timestamp <= all_data[j].timestamp
                            /\ \E f \in {"navigation_time", "collision_count",
                                         "recovery_count"} : AboveBaselineMean(i, f)

\* four runs of one controller type handed over latest first, the two
\* latest both outliers, and the earlier of them reported
C38_Witness ==
    /\ mon_pc = "detector_returned"
    /\ Len(all_data) = 4
    /\ all_data[1].timestamp = 4
    /\ SameAsFirst = 1..4
    /\ Outlier(1)
    /\ Outlier(2)
    /\ degradation_analysis # None
    /\ Get(degradation_analysis).degradation_detected
    /\ Get(degradation_analysis).degraded_run.timestamp = 3

DetectorReportedDegradation ==
    /\ degradation_analysis # None
    /\ Get(degradation_analysis).degradation_detected

\* C35: in a monitoring run at most one trigger is posted; one is posted
\* only when every processed run has been handed to the database and the
\* detector has reported degradation, and a run that returns after the
\* detector reported degradation has posted one; a run without processed
\* data hands nothing to the database, posts nothing and returns failure.
C35_TriggerIffDegradation ==
    /\ Len(posts) <= 1
    /\ posts # <<>> =>
          /\ offered = Len(all_data)
          /\ DetectorReportedDegradation
    /\ (mon_pc = "returned" /\ DetectorReportedDegradation) => Len(posts) = 1
    /\ degradation_analysis # None => offered = Len(all_data)
    /\ all_data = <<>> =>
          /\ offered = 0
          /\ stored_count = 0
          /\ posts = <<>>
          /\ in_flight = None
          /\ mon_pc = "returned" =>
                /\ monitoring_result # None
                /\ ~Get(monitoring_result).success

\* four runs were handed to the database, which failed to store one of
\* them; the detector reported degradation and the trigger was posted
C35_Witness ==
    /\ mon_pc = "returned"
    /\ Len(all_data) = 4
    /\ offered = 4
    /\ stored_count = 3
    /\ DetectorReportedDegradation
    /\ Len(posts) = 1

\* C36: when requests.post raised or brought a status other than 200, the
\* trigger was posted once and not again, send_orchestrator_recomposition
\* returned a 'failed' status, and the monitoring run returned success with
\* degradation detected and that same orchestrator response; a status that
\* was received is the one the orchestrator sent.
C36_FailedTriggerDoesNotFailTheRun ==
    (mon_pc = "returned" /\ answers # <<>>
        /\ (answers[1].raised \/ answers[1].status_code # 200)) =>
        /\ Len(posts) = 1
        /\ Len(answers) = 1
        /\ ~answers[1].raised => answers[1].status_code = last_response.status_code
        /\ orchestrator_response # None
        /\ Get(orchestrator_response).status = "failed"
        /\ monitoring_result # None
        /\ Get(monitoring_result).success
        /\ Get(monitoring_result).degradation_detected
        /\ Get(monitoring_result).orchestrator_response = Get(orchestrator_response)

\* the orchestrator began to recompose, its run failed and it answered 500
C36_Witness ==
    /\ mon_pc = "returned"
    /\ answers = <<[raised |-> FALSE, status_code |-> 500]>>
    /\ Get(monitoring_result).success
    /\ Get(orchestrator_response).status = "failed"

\* C37: the id "unknown" is in neither store; a run started without a
\* composition id posts its trigger under that id, the orchestrator serves
\* no graph run for it and stores no composition (every stored composition
\* is one that was confirmed before, none is a recomposition, no identifier
\* was drawn), and the only answer it gives is 404.
C37_UnknownIdIsNotFound ==
    /\ UnknownId \notin DOMAIN confirmed_compositions
    /\ UnknownId \notin DOMAIN compositions
    /\ composition_id = None =>
          /\ \A i \in 1..Len(posts) : posts[i].composition_id = UnknownId
          /\ running = EmptyStore
          /\ uuids = Cardinality(DOMAIN compositions)
          /\ DOMAIN compositions = DOMAIN confirmed_compositions
          /\ \A id \in DOMAIN compositions : compositions[id].status # "recomposed"
          /\ last_response.op = "recompose" =>
                /\ last_response.status_code = 404
                /\ last_response.composition_id = UnknownId
          /\ \A i \in 1..Len(answers) :
                ~answers[i].raised => answers[i].status_code = 404

\* the orchestrator holds a confirmed composition, the run was started
\* without an id, and its trigger was answered 404
C37_Witness ==
    /\ composition_id = None
    /\ DOMAIN confirmed_compositions = {1}
    /\ mon_pc = "returned"
    /\ Len(posts) = 1
    /\ answers = <<[raised |-> FALSE, status_code |-> 404]>>

====
